---- MODULE Spec2Model ----
(***************************************************************************)
(* A model of the PMCrypto node: the chain engine (logic/blockchain.js),   *)
(* the transaction engine (unnamed/part_001), the transaction pool         *)
(* (logic/transactionPool.js), the wallet (logic/wallet.js) and the peer   *)
(* message handlers (logic/p2p.js).                                        *)
(*                                                                         *)
(* Modelling conventions                                                   *)
(*  - A SHA-256 block hash is a HashBits-wide number computed from the     *)
(*    string pre-image; '' (the genesis previousHash) is EmptyHash.        *)
(*  - A transaction id is the pre-image itself (a collision-free hash):    *)
(*    the pair <<input references, outputs>>; '' is <<>>.                  *)
(*  - An ECDSA signature is the pair <<address of the signing key, signed  *)
(*    message>>; '' is <<>>.                                               *)
(*  - A JavaScript exception raised inside a validation aborts the         *)
(*    operation in progress; the validation operators return FALSE there.  *)
(***************************************************************************)
EXTENDS Integers, Sequences, FiniteSets, TLC

VARIABLES
    blockchain,       \* blockchain.js:164      per node, the chain
    unspentTxOuts,    \* blockchain.js:167      per node, the UTXO list
    transactionPool,  \* transactionPool.js:4   per node, the mempool
    now,              \* getCurrentTimestamp(): the wall clock, in seconds
    ticks,            \* number of clock steps taken (bounds the clock)
    channel,          \* per node, the messages in flight towards it
    lastOp,           \* the last operation and its observable outcome
    session,          \* the session of the two nodes: open or not, the chains
                      \* held when it opened, the timers that are yet to fire
    sockets,          \* p2p.js:151            the sessions node 1 has registered
    ws,               \* per session of node 1, the socket of the ws library
    mining            \* blockchain.js:283      the findBlock that is running, if any

vars == <<blockchain, unspentTxOuts, transactionPool, now, ticks, channel, lastOp,
          session, sockets, ws, mining>>

-----------------------------------------------------------------------------
(* Bounds of the model *)

HashBits == 4          \* width of a modelled hash
MaxChain == 3          \* longest chain a node holds
MaxPool == 2           \* most transactions in a mempool
MaxTicks == 1          \* clock steps
MaxDifficulty == 1     \* largest difficulty a peer declares

(* Program constants *)

COINBASE_AMOUNT == 50
BLOCK_GENERATION_INTERVAL == 10
DIFFICULTY_ADJUSTMENT_INTERVAL == 10
GenesisTimestamp == 1465154705
TimestampTolerance == 60

HashSpace == 2 ^ HashBits
EmptyHash == 0 - 1
EmptyString == <<>>

Nodes == {1, 2}
Other(n) == 3 - n

-----------------------------------------------------------------------------
(* Keys and addresses *)

GenesisAddress == "04bf"
\* the peer is the holder of the key of the genesis address
PeerKey == "bf"
PeerAddress == GenesisAddress
BadAddress == "zz"

getPrivateFromWallet(n) == IF n = 1 THEN "w1" ELSE "w2"

getPublicKey(aPrivateKey) ==
    CASE aPrivateKey = "w1" -> "04w1"
      [] aPrivateKey = "w2" -> "04w2"
      [] aPrivateKey = PeerKey -> PeerAddress
      [] OTHER -> BadAddress

getPublicFromWallet(n) == getPublicKey(getPrivateFromWallet(n))

\* the three facts isValidAddress reads from an address string
AddressShape(address) ==
    IF address = BadAddress
    THEN [length |-> 2, hex |-> FALSE, prefix04 |-> FALSE]
    ELSE [length |-> 130, hex |-> TRUE, prefix04 |-> TRUE]

isValidAddress(address) ==
    IF AddressShape(address).length # 130 THEN FALSE
    ELSE IF ~AddressShape(address).hex THEN FALSE
    ELSE IF ~AddressShape(address).prefix04 THEN FALSE
    ELSE TRUE

\* key.sign(dataToSign) and key.verify(id, signature)
Sign(aPrivateKey, dataToSign) == <<getPublicKey(aPrivateKey), dataToSign>>
Verify(address, id, signature) == signature = <<address, id>>

-----------------------------------------------------------------------------
(* Sequence helpers *)

RECURSIVE SumSeq(_)
SumSeq(s) == IF s = <<>> THEN 0 ELSE Head(s) + SumSeq(Tail(s))

RECURSIVE Flatten(_)
Flatten(ss) == IF ss = <<>> THEN <<>> ELSE Head(ss) \o Flatten(Tail(ss))

Map(s, Op(_)) == [i \in 1..Len(s) |-> Op(s[i])]

\* Array.prototype.find: the first element that satisfies Test, as a
\* sequence of length 0 (undefined) or 1
Find(s, Test(_)) ==
    LET hits == {i \in 1..Len(s) : Test(s[i])}
    IN  IF hits = {} THEN <<>>
        ELSE <<s[CHOOSE i \in hits : \A j \in hits : i <= j]>>

-----------------------------------------------------------------------------
(* Transaction engine *)

TxIn(txOutId, txOutIndex, signature) ==
    [txOutId |-> txOutId, txOutIndex |-> txOutIndex, signature |-> signature]

TxOut(address, amount) == [address |-> address, amount |-> amount]

UnspentTxOut(txOutId, txOutIndex, address, amount) ==
    [txOutId |-> txOutId, txOutIndex |-> txOutIndex,
     address |-> address, amount |-> amount]

Transaction(id, txIns, txOuts) == [id |-> id, txIns |-> txIns, txOuts |-> txOuts]

\* SHA256(txInContent + txOutContent): the signatures are not part of it
getTransactionId(transaction) ==
    << [i \in 1..Len(transaction.txIns) |->
            <<transaction.txIns[i].txOutId, transaction.txIns[i].txOutIndex>>],
       [i \in 1..Len(transaction.txOuts) |->
            <<transaction.txOuts[i].address, transaction.txOuts[i].amount>>] >>

findUnspentTxOut(transactionId, index, aUnspentTxOuts) ==
    Find(aUnspentTxOuts,
         LAMBDA uTxO : uTxO.txOutId = transactionId /\ uTxO.txOutIndex = index)

\* undefined.amount raises a TypeError: HasTxInAmount says whether it does not
HasTxInAmount(txIn, aUnspentTxOuts) ==
    findUnspentTxOut(txIn.txOutId, txIn.txOutIndex, aUnspentTxOuts) # <<>>

getTxInAmount(txIn, aUnspentTxOuts) ==
    findUnspentTxOut(txIn.txOutId, txIn.txOutIndex, aUnspentTxOuts)[1].amount

\* the lookup compares txOutId twice and never txOutIndex
validateTxIn(txIn, transaction, aUnspentTxOuts) ==
    LET referencedUTxOut ==
            Find(aUnspentTxOuts,
                 LAMBDA uTxO : uTxO.txOutId = txIn.txOutId
                               /\ uTxO.txOutId = txIn.txOutId)
    IN  IF referencedUTxOut = <<>> THEN FALSE
        ELSE Verify(referencedUTxOut[1].address, transaction.id, txIn.signature)

\* validateTransaction without the comparison of the two totals
validateTransactionAnyTotal(transaction, aUnspentTxOuts) ==
    IF getTransactionId(transaction) # transaction.id THEN FALSE
    ELSE IF ~(\A i \in 1..Len(transaction.txIns) :
                validateTxIn(transaction.txIns[i], transaction, aUnspentTxOuts))
    THEN FALSE
    ELSE \A i \in 1..Len(transaction.txIns) :
            HasTxInAmount(transaction.txIns[i], aUnspentTxOuts)

validateTransaction(transaction, aUnspentTxOuts) ==
    IF getTransactionId(transaction) # transaction.id THEN FALSE
    ELSE IF ~(\A i \in 1..Len(transaction.txIns) :
                validateTxIn(transaction.txIns[i], transaction, aUnspentTxOuts))
    THEN FALSE
    ELSE IF ~(\A i \in 1..Len(transaction.txIns) :
                HasTxInAmount(transaction.txIns[i], aUnspentTxOuts))
    THEN FALSE     \* getTxInAmount raises
    ELSE LET totalTxInValues ==
                 SumSeq(Map(transaction.txIns,
                            LAMBDA txIn : getTxInAmount(txIn, aUnspentTxOuts)))
             totalTxOutValues ==
                 SumSeq(Map(transaction.txOuts, LAMBDA txOut : txOut.amount))
         IN  totalTxOutValues = totalTxInValues

validateCoinbaseTx(transaction, blockIndex) ==
    IF getTransactionId(transaction) # transaction.id THEN FALSE
    ELSE IF Len(transaction.txIns) # 1 THEN FALSE
    ELSE IF transaction.txIns[1].txOutIndex # blockIndex THEN FALSE
    ELSE IF Len(transaction.txOuts) # 1 THEN FALSE
    ELSE IF transaction.txOuts[1].amount # COINBASE_AMOUNT THEN FALSE
    ELSE TRUE

\* hasDuplicates that never finds one
hasDuplicatesNever(txIns) == FALSE

\* _.countBy(txIns, txIn => txIn.txOutId + txIn.txOutId): the key holds the
\* txOutId twice and never the txOutIndex
hasDuplicates(txIns) ==
    LET key(txIn) == <<txIn.txOutId, txIn.txOutId>>
    IN  \E i, j \in 1..Len(txIns) : i < j /\ key(txIns[i]) = key(txIns[j])

validateBlockTransactions(aTransactions, aUnspentTxOuts, blockIndex) ==
    IF aTransactions = <<>> THEN FALSE       \* coinbaseTx == null
    ELSE IF ~validateCoinbaseTx(aTransactions[1], blockIndex) THEN FALSE
    ELSE IF hasDuplicates(Flatten(Map(aTransactions, LAMBDA tx : tx.txIns)))
    THEN FALSE
    ELSE \A i \in 2..Len(aTransactions) :
            validateTransaction(aTransactions[i], aUnspentTxOuts)

getCoinbaseTransaction(address, blockIndex) ==
    LET txIns == <<TxIn(EmptyString, blockIndex, EmptyString)>>
        txOuts == <<TxOut(address, COINBASE_AMOUNT)>>
    IN  Transaction(getTransactionId(Transaction(EmptyString, txIns, txOuts)),
                    txIns, txOuts)

updateUnspentTxOuts(newTransactions, aUnspentTxOuts) ==
    LET newUnspentTxOuts ==
            Flatten(Map(newTransactions,
                LAMBDA t : [index \in 1..Len(t.txOuts) |->
                    UnspentTxOut(t.id, index - 1,
                                 t.txOuts[index].address, t.txOuts[index].amount)]))
        consumedTxOuts ==
            Map(Flatten(Map(newTransactions, LAMBDA t : t.txIns)),
                LAMBDA txIn : UnspentTxOut(txIn.txOutId, txIn.txOutIndex, "", 0))
    IN  SelectSeq(aUnspentTxOuts,
                  LAMBDA uTxO : findUnspentTxOut(uTxO.txOutId, uTxO.txOutIndex,
                                                 consumedTxOuts) = <<>>)
        \o newUnspentTxOuts

isValidTxInStructure(txIn) == TRUE   \* the modelled fields have their types

isValidTxOutStructure(txOut) == isValidAddress(txOut.address)

isValidTransactionStructure(transaction) ==
    /\ \A i \in 1..Len(transaction.txIns) : isValidTxInStructure(transaction.txIns[i])
    /\ \A i \in 1..Len(transaction.txOuts) : isValidTxOutStructure(transaction.txOuts[i])

isValidTransactionsStructure(transactions) ==
    \A i \in 1..Len(transactions) : isValidTransactionStructure(transactions[i])

\* null is [ok |-> FALSE]
Null == [ok |-> FALSE, utxos |-> <<>>]

processTransactions(aTransactions, aUnspentTxOuts, blockIndex) ==
    IF ~isValidTransactionsStructure(aTransactions) THEN Null
    ELSE IF ~validateBlockTransactions(aTransactions, aUnspentTxOuts, blockIndex)
    THEN Null
    ELSE [ok |-> TRUE, utxos |-> updateUnspentTxOuts(aTransactions, aUnspentTxOuts)]

-----------------------------------------------------------------------------
(* Transaction pool *)

hasTxIn(txIn, aUnspentTxOuts) ==
    Find(aUnspentTxOuts,
         LAMBDA uTxO : uTxO.txOutId = txIn.txOutId
                       /\ uTxO.txOutIndex = txIn.txOutIndex) # <<>>

\* _.without(transactionPool, ...invalidTxs)
updateTransactionPool(aTransactionPool, aUnspentTxOuts) ==
    SelectSeq(aTransactionPool,
              LAMBDA tx : \A i \in 1..Len(tx.txIns) : hasTxIn(tx.txIns[i], aUnspentTxOuts))

getTxPoolIns(aTransactionPool) ==
    Flatten(Map(aTransactionPool, LAMBDA tx : tx.txIns))

\* isValidTxForPool that finds no input in the pool
isValidTxForPoolAlways(tx, aTransactionPool) == TRUE

isValidTxForPool(tx, aTransactionPool) ==
    LET txPoolIns == getTxPoolIns(aTransactionPool)
        containsTxIn(txIn) ==
            Find(txPoolIns,
                 LAMBDA txPoolIn : txIn.txOutIndex = txPoolIn.txOutIndex
                                   /\ txIn.txOutId = txPoolIn.txOutId) # <<>>
    IN  \A i \in 1..Len(tx.txIns) : ~containsTxIn(tx.txIns[i])

\* addToTransactionPool that pushes the transaction before it validates it
addToTransactionPoolPushFirst(tx, aUnspentTxOuts, aTransactionPool) ==
    IF ~validateTransaction(tx, aUnspentTxOuts)
    THEN [ok |-> FALSE, pool |-> Append(aTransactionPool, tx)]
    ELSE IF ~isValidTxForPool(tx, aTransactionPool)
    THEN [ok |-> FALSE, pool |-> Append(aTransactionPool, tx)]
    ELSE [ok |-> TRUE, pool |-> Append(aTransactionPool, tx)]

\* ok = FALSE is the Error thrown; the pool is then the pool as it was
addToTransactionPool(tx, aUnspentTxOuts, aTransactionPool) ==
    IF ~validateTransaction(tx, aUnspentTxOuts)
    THEN [ok |-> FALSE, pool |-> aTransactionPool]
    ELSE IF ~isValidTxForPool(tx, aTransactionPool)
    THEN [ok |-> FALSE, pool |-> aTransactionPool]
    ELSE [ok |-> TRUE, pool |-> Append(aTransactionPool, tx)]

-----------------------------------------------------------------------------
(* Wallet *)

findUnspentTxOuts(ownerAddress, aUnspentTxOuts) ==
    SelectSeq(aUnspentTxOuts, LAMBDA uTxO : uTxO.address = ownerAddress)

getBalance(address, aUnspentTxOuts) ==
    SumSeq(Map(findUnspentTxOuts(address, aUnspentTxOuts), LAMBDA uTxO : uTxO.amount))

\* the shortest prefix whose amounts reach amount; ok = FALSE is the Error
RECURSIVE findTxOutsForAmountFrom(_, _, _, _)
findTxOutsForAmountFrom(amount, myUnspentTxOuts, included, currentAmount) ==
    IF myUnspentTxOuts = <<>>
    THEN [ok |-> FALSE, includedUnspentTxOuts |-> <<>>, leftOverAmount |-> 0]
    ELSE LET nextIncluded == Append(included, Head(myUnspentTxOuts))
             nextAmount == currentAmount + Head(myUnspentTxOuts).amount
         IN  IF nextAmount >= amount
             THEN [ok |-> TRUE, includedUnspentTxOuts |-> nextIncluded,
                   leftOverAmount |-> nextAmount - amount]
             ELSE findTxOutsForAmountFrom(amount, Tail(myUnspentTxOuts),
                                          nextIncluded, nextAmount)

findTxOutsForAmount(amount, myUnspentTxOuts) ==
    findTxOutsForAmountFrom(amount, myUnspentTxOuts, <<>>, 0)

createTxOuts(receiverAddress, myAddress, amount, leftOverAmount) ==
    IF leftOverAmount = 0
    THEN <<TxOut(receiverAddress, amount)>>
    ELSE <<TxOut(receiverAddress, amount), TxOut(myAddress, leftOverAmount)>>

filterTxPoolTxs(aUnspentTxOuts, aTransactionPool) ==
    LET txIns == Flatten(Map(aTransactionPool, LAMBDA tx : tx.txIns))
    IN  SelectSeq(aUnspentTxOuts,
            LAMBDA unspentTxOut :
                Find(txIns, LAMBDA aTxIn : aTxIn.txOutIndex = unspentTxOut.txOutIndex
                                           /\ aTxIn.txOutId = unspentTxOut.txOutId) = <<>>)

\* ok = FALSE is the Error thrown by signTxIn
signTxIn(transaction, txInIndex, privateKey, aUnspentTxOuts) ==
    LET txIn == transaction.txIns[txInIndex]
        referencedUnspentTxOut ==
            findUnspentTxOut(txIn.txOutId, txIn.txOutIndex, aUnspentTxOuts)
    IN  IF referencedUnspentTxOut = <<>>
        THEN [ok |-> FALSE, signature |-> EmptyString]
        ELSE IF getPublicKey(privateKey) # referencedUnspentTxOut[1].address
        THEN [ok |-> FALSE, signature |-> EmptyString]
        ELSE [ok |-> TRUE, signature |-> Sign(privateKey, transaction.id)]

\* ok = FALSE is an Error thrown on the way
createTransaction(receiverAddress, amount, privateKey, aUnspentTxOuts, txPool) ==
    LET myAddress == getPublicKey(privateKey)
        myUnspentTxOutsA == SelectSeq(aUnspentTxOuts, LAMBDA uTxO : uTxO.address = myAddress)
        myUnspentTxOuts == filterTxPoolTxs(myUnspentTxOutsA, txPool)
        found == findTxOutsForAmount(amount, myUnspentTxOuts)
        unsignedTxIns ==
            Map(found.includedUnspentTxOuts,
                LAMBDA unspentTxOut :
                    TxIn(unspentTxOut.txOutId, unspentTxOut.txOutIndex, EmptyString))
        txOuts == createTxOuts(receiverAddress, myAddress, amount, found.leftOverAmount)
        id == getTransactionId(Transaction(EmptyString, unsignedTxIns, txOuts))
        unsigned == Transaction(id, unsignedTxIns, txOuts)
        signed(index) == signTxIn(unsigned, index, privateKey, aUnspentTxOuts)
    IN  IF ~found.ok THEN [ok |-> FALSE, tx |-> unsigned]
        ELSE IF \E index \in 1..Len(unsignedTxIns) : ~signed(index).ok
        THEN [ok |-> FALSE, tx |-> unsigned]
        ELSE [ok |-> TRUE,
              tx |-> Transaction(id,
                        [index \in 1..Len(unsignedTxIns) |->
                            TxIn(unsignedTxIns[index].txOutId,
                                 unsignedTxIns[index].txOutIndex,
                                 signed(index).signature)],
                        txOuts)]

-----------------------------------------------------------------------------
(* Chain engine *)

Block(index, hash, previousHash, timestamp, data, difficulty, nonce) ==
    [index |-> index, previousHash |-> previousHash, timestamp |-> timestamp,
     data |-> data, hash |-> hash, difficulty |-> difficulty, nonce |-> nonce]

\* the leading bits of 0x91a73664...
GenesisHash == (145 * HashSpace) \div 256

genesisTransaction ==
    LET txIns == <<TxIn(EmptyString, 0, EmptyString)>>
        txOuts == <<TxOut(GenesisAddress, 50)>>
    IN  Transaction(getTransactionId(Transaction(EmptyString, txIns, txOuts)),
                    txIns, txOuts)

genesisBlock ==
    Block(0, GenesisHash, EmptyHash, GenesisTimestamp, <<genesisTransaction>>, 0, 0)

\* String(data) of an array of objects is "[object Object],[object Object],...":
\* it tells how many transactions there are and nothing else
DataToString(data) == Len(data)

\* the string index + previousHash + timestamp + data + difficulty + nonce
PreImage(index, previousHash, timestamp, data, difficulty, nonce) ==
    <<index, previousHash, timestamp, DataToString(data), difficulty, nonce>>

\* SHA-256, as a function that mixes every part of the pre-image
SHA256(pre) ==
    (3 * pre[1] + 5 * (pre[2] + 1) + 7 * (pre[3] % HashSpace) + 11 * pre[4]
       + 13 * pre[5] + pre[6] + 6) % HashSpace

calculateHash(index, previousHash, timestamp, data, difficulty, nonce) ==
    SHA256(PreImage(index, previousHash, timestamp, data, difficulty, nonce))

calculateHashForBlock(block) ==
    calculateHash(block.index, block.previousHash, block.timestamp, block.data,
                  block.difficulty, block.nonce)

\* the difficulty of a block whose difficulty field is missing: undefined,
\* which isValidBlockStructure does not look at
NoDifficulty == 0 - 9

\* util.js is not among the sources: hexToBinary is taken from its use in
\* hashMatchesDifficulty, as the bits of the hash, most significant first
hexToBinary(hash) == [i \in 1..HashBits |-> (hash \div (2 ^ (HashBits - i))) % 2]

\* hashInBinary.startsWith('0'.repeat(difficulty))
hashMatchesDifficulty(hash, difficulty) ==
    LET hashInBinary == hexToBinary(hash)
    IN  \/ difficulty = NoDifficulty
        \/ /\ difficulty <= Len(hashInBinary)
           /\ \A i \in 1..difficulty : hashInBinary[i] = 0

hashMatchesBlockContent(block) == calculateHashForBlock(block) = block.hash

\* '0'.repeat(difficulty) raises a RangeError when the difficulty is negative;
\* '0'.repeat(undefined) is the empty string
RepeatRaises(difficulty) == difficulty # NoDifficulty /\ difficulty < 0

\* a difficulty that is not satisfied is logged and the block is still valid;
\* FALSE is also the RangeError of hashMatchesDifficulty
hasValidHash(block) ==
    IF ~hashMatchesBlockContent(block) THEN FALSE
    ELSE IF RepeatRaises(block.difficulty) THEN FALSE
    ELSE IF ~hashMatchesDifficulty(block.hash, block.difficulty) THEN TRUE
    ELSE TRUE

\* a hash or previousHash that is not a string
NotAString == 0 - 2

\* typeof block.hash === 'string' && typeof block.previousHash === 'string':
\* the other fields of a modelled block have their types
isValidBlockStructure(block) ==
    /\ block.hash # NotAString
    /\ block.previousHash # NotAString

\* isValidTimestamp that takes a timestamp at the edge of the tolerance
isValidTimestampAtTheEdge(newBlock, previousBlock, currentTimestamp) ==
    /\ previousBlock.timestamp - TimestampTolerance <= newBlock.timestamp
    /\ newBlock.timestamp - TimestampTolerance <= currentTimestamp

isValidTimestamp(newBlock, previousBlock, currentTimestamp) ==
    /\ previousBlock.timestamp - TimestampTolerance < newBlock.timestamp
    /\ newBlock.timestamp - TimestampTolerance < currentTimestamp

\* isValidNewBlock without the comparison of the indexes
isValidNewBlockAnyIndex(newBlock, previousBlock, currentTimestamp) ==
    IF ~isValidBlockStructure(newBlock) THEN FALSE
    ELSE IF previousBlock.hash # newBlock.previousHash THEN FALSE
    ELSE IF ~isValidTimestamp(newBlock, previousBlock, currentTimestamp) THEN FALSE
    ELSE IF ~hasValidHash(newBlock) THEN FALSE
    ELSE TRUE

isValidNewBlock(newBlock, previousBlock, currentTimestamp) ==
    IF ~isValidBlockStructure(newBlock) THEN FALSE
    ELSE IF previousBlock.index + 1 # newBlock.index THEN FALSE
    ELSE IF previousBlock.hash # newBlock.previousHash THEN FALSE
    ELSE IF ~isValidTimestamp(newBlock, previousBlock, currentTimestamp) THEN FALSE
    ELSE IF ~hasValidHash(newBlock) THEN FALSE
    ELSE TRUE

\* the number that is not a number
NaN == 0 - 1

\* Math.pow(2, difficulty): NaN when the difficulty is undefined
Pow2(difficulty) == IF difficulty = NoDifficulty THEN NaN ELSE 2 ^ difficulty

\* a + b and a > b of two numbers of which one may be NaN
Plus(a, b) == IF a = NaN \/ b = NaN THEN NaN ELSE a + b
GreaterThan(a, b) == a # NaN /\ b # NaN /\ a > b

RECURSIVE getAccumulatedDifficulty(_)
getAccumulatedDifficulty(aBlockchain) ==
    IF aBlockchain = <<>> THEN 0
    ELSE Plus(Pow2(Head(aBlockchain).difficulty),
              getAccumulatedDifficulty(Tail(aBlockchain)))

\* aBlockchain is indexed with the length of the node's own chain
getAdjustedDifficulty(latestBlock, aBlockchain, ownLength) ==
    LET prevAdjustmentBlock == aBlockchain[ownLength - DIFFICULTY_ADJUSTMENT_INTERVAL + 1]
        timeExpected == BLOCK_GENERATION_INTERVAL * DIFFICULTY_ADJUSTMENT_INTERVAL
        timeTaken == latestBlock.timestamp - prevAdjustmentBlock.timestamp
    IN  IF 2 * timeTaken < timeExpected THEN prevAdjustmentBlock.difficulty + 1
        ELSE IF timeTaken > timeExpected * 2 THEN prevAdjustmentBlock.difficulty - 1
        ELSE prevAdjustmentBlock.difficulty

getDifficulty(aBlockchain, ownLength) ==
    LET latestBlock == aBlockchain[ownLength]
    IN  IF latestBlock.index % DIFFICULTY_ADJUSTMENT_INTERVAL = 0 /\ latestBlock.index # 0
        THEN getAdjustedDifficulty(latestBlock, aBlockchain, ownLength)
        ELSE latestBlock.difficulty

\* the nonces 0, 1, ... are tried in order; the loop ends at the first that fits
FindBlockTerminates(index, previousHash, timestamp, data, difficulty) ==
    /\ difficulty >= 0
    /\ \E nonce \in 0..(HashSpace - 1) :
          hashMatchesDifficulty(
              calculateHash(index, previousHash, timestamp, data, difficulty, nonce),
              difficulty)

findBlock(index, previousHash, timestamp, data, difficulty) ==
    LET fits(nonce) ==
            hashMatchesDifficulty(
                calculateHash(index, previousHash, timestamp, data, difficulty, nonce),
                difficulty)
        nonce == CHOOSE k \in 0..(HashSpace - 1) :
                    fits(k) /\ \A j \in 0..(k - 1) : ~fits(j)
    IN  Block(index,
              calculateHash(index, previousHash, timestamp, data, difficulty, nonce),
              previousHash, timestamp, data, difficulty, nonce)

\* the fold of processTransactions over a chain that starts at the genesis block
RECURSIVE isValidChainFrom(_, _, _, _)
isValidChainFrom(blockchainToValidate, i, aUnspentTxOuts, currentTimestamp) ==
    IF i > Len(blockchainToValidate) THEN [ok |-> TRUE, utxos |-> aUnspentTxOuts]
    ELSE LET currentBlock == blockchainToValidate[i]
             processed == processTransactions(currentBlock.data, aUnspentTxOuts,
                                              currentBlock.index)
         IN  IF i # 1 /\ ~isValidNewBlock(blockchainToValidate[i],
                                         blockchainToValidate[i - 1], currentTimestamp)
             THEN Null
             ELSE IF ~processed.ok THEN Null
             ELSE isValidChainFrom(blockchainToValidate, i + 1, processed.utxos,
                                   currentTimestamp)

isValidChain(blockchainToValidate, currentTimestamp) ==
    IF blockchainToValidate = <<>> THEN Null
    ELSE IF blockchainToValidate[1] # genesisBlock THEN Null
    ELSE isValidChainFrom(blockchainToValidate, 1, <<>>, currentTimestamp)

\* A node's state: st.blockchain, st.unspentTxOuts, st.transactionPool
NodeState(aBlockchain, aUnspentTxOuts, aTransactionPool) ==
    [blockchain |-> aBlockchain, unspentTxOuts |-> aUnspentTxOuts,
     transactionPool |-> aTransactionPool]

getLatestBlock(st) == st.blockchain[Len(st.blockchain)]

\* addBlockToChain that appends the block before it looks at its transactions
addBlockToChainAppendsFirst(st, newBlock, currentTimestamp) ==
    IF isValidNewBlock(newBlock, getLatestBlock(st), currentTimestamp)
    THEN LET retVal == processTransactions(newBlock.data, st.unspentTxOuts, newBlock.index)
         IN  IF ~retVal.ok
             THEN [ret |-> FALSE,
                   st |-> NodeState(Append(st.blockchain, newBlock),
                                    st.unspentTxOuts, st.transactionPool)]
             ELSE [ret |-> TRUE,
                   st |-> NodeState(Append(st.blockchain, newBlock),
                                    retVal.utxos,
                                    updateTransactionPool(st.transactionPool, retVal.utxos))]
    ELSE [ret |-> FALSE, st |-> st]

\* addBlockToChain that keeps the UTXO list it had
addBlockToChainStaleUnspent(st, newBlock, currentTimestamp) ==
    IF isValidNewBlock(newBlock, getLatestBlock(st), currentTimestamp)
    THEN LET retVal == processTransactions(newBlock.data, st.unspentTxOuts, newBlock.index)
         IN  IF ~retVal.ok
             THEN [ret |-> FALSE, st |-> st]
             ELSE [ret |-> TRUE,
                   st |-> NodeState(Append(st.blockchain, newBlock),
                                    st.unspentTxOuts,
                                    updateTransactionPool(st.transactionPool, retVal.utxos))]
    ELSE [ret |-> FALSE, st |-> st]

addBlockToChain(st, newBlock, currentTimestamp) ==
    IF isValidNewBlock(newBlock, getLatestBlock(st), currentTimestamp)
    THEN LET retVal == processTransactions(newBlock.data, st.unspentTxOuts, newBlock.index)
         IN  IF ~retVal.ok
             THEN [ret |-> FALSE, st |-> st]
             ELSE [ret |-> TRUE,
                   st |-> NodeState(Append(st.blockchain, newBlock),
                                    retVal.utxos,
                                    updateTransactionPool(st.transactionPool, retVal.utxos))]
    ELSE [ret |-> FALSE, st |-> st]

\* replaceChain that also takes a chain of the same accumulated difficulty
replaceChainOnTie(st, newBlocks, currentTimestamp) ==
    LET aUnspentTxOuts == isValidChain(newBlocks, currentTimestamp)
        validChain == aUnspentTxOuts.ok
    IN  IF validChain
           /\ getAccumulatedDifficulty(newBlocks) >= getAccumulatedDifficulty(st.blockchain)
        THEN [ret |-> TRUE,
              st |-> NodeState(newBlocks, aUnspentTxOuts.utxos,
                               updateTransactionPool(st.transactionPool,
                                                     aUnspentTxOuts.utxos))]
        ELSE [ret |-> FALSE, st |-> st]

replaceChain(st, newBlocks, currentTimestamp) ==
    LET aUnspentTxOuts == isValidChain(newBlocks, currentTimestamp)
        validChain == aUnspentTxOuts.ok
    IN  IF validChain
           /\ GreaterThan(getAccumulatedDifficulty(newBlocks),
                          getAccumulatedDifficulty(st.blockchain))
        THEN [ret |-> TRUE,
              st |-> NodeState(newBlocks, aUnspentTxOuts.utxos,
                               updateTransactionPool(st.transactionPool,
                                                     aUnspentTxOuts.utxos))]
        ELSE [ret |-> FALSE, st |-> st]

\* the block of a mining that raised
NoBlock == <<>>

\* ret = FALSE is the null returned, or the RangeError that findBlock raises
\* in hashMatchesDifficulty
generateRawNextBlock(st, blockData, currentTimestamp) ==
    LET previousBlock == getLatestBlock(st)
        difficulty == getDifficulty(st.blockchain, Len(st.blockchain))
        nextIndex == previousBlock.index + 1
        newBlock == findBlock(nextIndex, previousBlock.hash, currentTimestamp,
                              blockData, difficulty)
    IN  IF RepeatRaises(difficulty)
        THEN [ret |-> FALSE, block |-> NoBlock, st |-> st]
        ELSE [ret |-> addBlockToChain(st, newBlock, currentTimestamp).ret,
              block |-> newBlock,
              st |-> addBlockToChain(st, newBlock, currentTimestamp).st]

generateNextBlock(st, address, currentTimestamp) ==
    LET coinbaseTx == getCoinbaseTransaction(address, getLatestBlock(st).index + 1)
        blockData == <<coinbaseTx>> \o st.transactionPool
    IN  generateRawNextBlock(st, blockData, currentTimestamp)

-----------------------------------------------------------------------------
(* Peer messages *)

QUERY_LATEST == 0
QUERY_ALL == 1
RESPONSE_BLOCKCHAIN == 2
QUERY_TRANSACTION_POOL == 3
RESPONSE_TRANSACTION_POOL == 4

\* A text, as it travels: whether JSON.parse takes it, whether it is the text
\* of null, and the value it is the text of
JSONStringify(value) == [parses |-> TRUE, null |-> FALSE, json |-> value]

\* null, which JSON.parse reads as the text "null"
NullData == [parses |-> TRUE, null |-> TRUE, json |-> <<>>]

\* a text that JSON.parse throws on
Malformed == [parses |-> FALSE, null |-> FALSE, json |-> <<>>]

\* JSON.parse in a try: the value as a sequence of one, or <<>> for the null
\* that is returned when the text does not parse or is the text of null
JSONToObject(data) ==
    IF ~data.parses THEN <<>>
    ELSE IF data.null THEN <<>>
    ELSE <<data.json>>

Message(type, data) == [type |-> type, data |-> data]

\* what ws.send is given
write(message) == JSONStringify(message)

queryChainLengthMsg == Message(QUERY_LATEST, NullData)
queryAllMsg == Message(QUERY_ALL, NullData)
queryTransactionPoolMsg == Message(QUERY_TRANSACTION_POOL, NullData)
responseChainMsg(st) == Message(RESPONSE_BLOCKCHAIN, JSONStringify(st.blockchain))
responseLatestMsg(st) == Message(RESPONSE_BLOCKCHAIN, JSONStringify(<<getLatestBlock(st)>>))
responseTransactionPoolMsg(st) ==
    Message(RESPONSE_TRANSACTION_POOL, JSONStringify(st.transactionPool))

\* The outcome of a handler: its return value, the node's state after it and
\* the messages it broadcast, in order
Outcome(ret, st, sent) == [ret |-> ret, st |-> st, sent |-> sent]

\* generateRawNextBlock with its broadcastLatest
mineRaw(st, blockData, currentTimestamp) ==
    LET r == generateRawNextBlock(st, blockData, currentTimestamp)
    IN  Outcome(r.ret, r.st, IF r.ret THEN <<responseLatestMsg(r.st)>> ELSE <<>>)

\* ret = FALSE is the Error thrown (or the null returned by the mining)
generatenextBlockWithTransaction(st, privateKey, receiverAddress, amount, currentTimestamp) ==
    LET coinbaseTx == getCoinbaseTransaction(getPublicKey(privateKey),
                                             getLatestBlock(st).index + 1)
        tx == createTransaction(receiverAddress, amount, privateKey,
                                st.unspentTxOuts, st.transactionPool)
    IN  IF ~isValidAddress(receiverAddress) THEN Outcome(FALSE, st, <<>>)
        ELSE IF ~tx.ok THEN Outcome(FALSE, st, <<>>)
        ELSE mineRaw(st, <<coinbaseTx, tx.tx>>, currentTimestamp)

\* ret = FALSE is the Error thrown
sendTransaction(st, privateKey, address, amount) ==
    LET tx == createTransaction(address, amount, privateKey,
                                st.unspentTxOuts, st.transactionPool)
        added == addToTransactionPool(tx.tx, st.unspentTxOuts, st.transactionPool)
        after == NodeState(st.blockchain, st.unspentTxOuts, added.pool)
    IN  IF ~tx.ok THEN Outcome(FALSE, st, <<>>)
        ELSE IF ~added.ok THEN Outcome(FALSE, after, <<>>)
        ELSE Outcome(TRUE, after, <<responseTransactionPoolMsg(after)>>)

\* replaceChain with its broadcastLatest
replaceChainAndBroadcast(st, newBlocks, currentTimestamp) ==
    LET r == replaceChain(st, newBlocks, currentTimestamp)
    IN  Outcome(r.ret, r.st, IF r.ret THEN <<responseLatestMsg(r.st)>> ELSE <<>>)

\* An outcome with the name of the chain operation the handler called
Called(call, outcome) ==
    [call |-> call, ret |-> outcome.ret, st |-> outcome.st, sent |-> outcome.sent]

\* handleBlockchainResponse that asks for the chain whenever it is given one
\* block, before it looks whether the block goes on top of the head
handleBlockchainResponseAsksFirst(st, receivedBlocks, currentTimestamp) ==
    IF Len(receivedBlocks) = 0 THEN Called("none", Outcome(FALSE, st, <<>>))
    ELSE LET latestBlockReceived == receivedBlocks[Len(receivedBlocks)]
             latestBlockHeld == getLatestBlock(st)
             added == addBlockToChain(st, latestBlockReceived, currentTimestamp)
         IN  IF ~isValidBlockStructure(latestBlockReceived)
             THEN Called("none", Outcome(FALSE, st, <<>>))
             ELSE IF latestBlockReceived.index > latestBlockHeld.index
             THEN IF Len(receivedBlocks) = 1
                  THEN Called("queryAll", Outcome(FALSE, st, <<queryAllMsg>>))
                  ELSE IF latestBlockHeld.hash = latestBlockReceived.previousHash
                  THEN IF added.ret
                       THEN Called("addBlockToChain",
                                   Outcome(TRUE, added.st, <<responseLatestMsg(added.st)>>))
                       ELSE Called("addBlockToChain", Outcome(FALSE, st, <<>>))
                  ELSE Called("replaceChain",
                              replaceChainAndBroadcast(st, receivedBlocks, currentTimestamp))
             ELSE Called("none", Outcome(FALSE, st, <<>>))

\* ret tells whether the node's head changed
handleBlockchainResponse(st, receivedBlocks, currentTimestamp) ==
    IF Len(receivedBlocks) = 0 THEN Called("none", Outcome(FALSE, st, <<>>))
    ELSE LET latestBlockReceived == receivedBlocks[Len(receivedBlocks)]
             latestBlockHeld == getLatestBlock(st)
             added == addBlockToChain(st, latestBlockReceived, currentTimestamp)
         IN  IF ~isValidBlockStructure(latestBlockReceived)
             THEN Called("none", Outcome(FALSE, st, <<>>))
             ELSE IF latestBlockReceived.index > latestBlockHeld.index
             THEN IF latestBlockHeld.hash = latestBlockReceived.previousHash
                  THEN IF added.ret
                       THEN Called("addBlockToChain",
                                   Outcome(TRUE, added.st, <<responseLatestMsg(added.st)>>))
                       ELSE Called("addBlockToChain", Outcome(FALSE, st, <<>>))
                  ELSE IF Len(receivedBlocks) = 1
                  THEN Called("queryAll", Outcome(FALSE, st, <<queryAllMsg>>))
                  ELSE Called("replaceChain",
                              replaceChainAndBroadcast(st, receivedBlocks, currentTimestamp))
             ELSE Called("none", Outcome(FALSE, st, <<>>))

\* the forEach of RESPONSE_TRANSACTION_POOL without the try and catch around
\* each transaction: the first transaction that is refused ends it
RECURSIVE handleReceivedTransactionsUntilRefused(_, _, _)
handleReceivedTransactionsUntilRefused(st, receivedTransactions, done) ==
    IF receivedTransactions = <<>> THEN Outcome(done.ret, st, done.sent)
    ELSE LET added == addToTransactionPool(Head(receivedTransactions),
                                           st.unspentTxOuts, st.transactionPool)
             after == NodeState(st.blockchain, st.unspentTxOuts, added.pool)
         IN  IF added.ok
             THEN handleReceivedTransactionsUntilRefused(after, Tail(receivedTransactions),
                      [ret |-> TRUE,
                       sent |-> Append(done.sent, responseTransactionPoolMsg(after))])
             ELSE Outcome(done.ret, after, done.sent)

\* receivedTransactions.forEach: every transaction that is added is followed
\* by a broadcast of the pool, and the Error of one that is not is caught; the
\* pool is each time the one addToTransactionPool left; ret tells whether any
\* was added
RECURSIVE handleReceivedTransactions(_, _, _)
handleReceivedTransactions(st, receivedTransactions, done) ==
    IF receivedTransactions = <<>> THEN Outcome(done.ret, st, done.sent)
    ELSE LET added == addToTransactionPool(Head(receivedTransactions),
                                           st.unspentTxOuts, st.transactionPool)
             after == NodeState(st.blockchain, st.unspentTxOuts, added.pool)
         IN  IF added.ok
             THEN handleReceivedTransactions(after, Tail(receivedTransactions),
                      [ret |-> TRUE,
                       sent |-> Append(done.sent, responseTransactionPoolMsg(after))])
             ELSE handleReceivedTransactions(after, Tail(receivedTransactions), done)

\* The outcome of the handler of a message: the node's state after it, the
\* messages written to the socket the message came from and the messages
\* broadcast, in order
Handled(ret, st, reply, sent) == [ret |-> ret, st |-> st, reply |-> reply, sent |-> sent]

\* the handler of ws.on('message'): a message that does not parse, or whose
\* data does not, is dropped, and so is a message of a type that is not known
initMessageHandler(st, data, currentTimestamp) ==
    LET message == JSONToObject(data)
        type == message[1].type
        received == JSONToObject(message[1].data)
    IN  IF message = <<>> THEN Handled(FALSE, st, <<>>, <<>>)
        ELSE IF type = QUERY_LATEST
        THEN Handled(FALSE, st, <<responseLatestMsg(st)>>, <<>>)
        ELSE IF type = QUERY_ALL
        THEN Handled(FALSE, st, <<responseChainMsg(st)>>, <<>>)
        ELSE IF type = RESPONSE_BLOCKCHAIN
        THEN IF received = <<>> THEN Handled(FALSE, st, <<>>, <<>>)
             ELSE LET handled == handleBlockchainResponse(st, received[1],
                                                          currentTimestamp)
                  IN  Handled(handled.ret, handled.st, <<>>, handled.sent)
        ELSE IF type = QUERY_TRANSACTION_POOL
        THEN Handled(FALSE, st, <<responseTransactionPoolMsg(st)>>, <<>>)
        ELSE IF type = RESPONSE_TRANSACTION_POOL
        THEN IF received = <<>> THEN Handled(FALSE, st, <<>>, <<>>)
             ELSE LET handled == handleReceivedTransactions(st, received[1],
                                      [ret |-> FALSE, sent |-> <<>>])
                  IN  Handled(handled.ret, handled.st, <<>>, handled.sent)
        ELSE Handled(FALSE, st, <<>>, <<>>)

-----------------------------------------------------------------------------
(* What the environment offers a node: the commands of the control surface   *)
(* and the messages of a peer that holds PeerKey and no other key.           *)

StartTime == GenesisTimestamp + 600

Amounts == {10, 50}
Receivers == {PeerAddress, BadAddress}

StateOf(n) == NodeState(blockchain[n], unspentTxOuts[n], transactionPool[n])

\* a transaction of the peer: it signs every input with its own key
PeerTx(refs, txOuts, signed, rightId) ==
    LET txIns0 == [i \in 1..Len(refs) |-> TxIn(refs[i][1], refs[i][2], EmptyString)]
        id == IF rightId
              THEN getTransactionId(Transaction(EmptyString, txIns0, txOuts))
              ELSE EmptyString
    IN  Transaction(id,
            [i \in 1..Len(refs) |->
                TxIn(refs[i][1], refs[i][2],
                     IF signed THEN Sign(PeerKey, id) ELSE EmptyString)],
            txOuts)

RefOf(uTxO) == <<uTxO.txOutId, uTxO.txOutIndex>>

\* the peer spends one unspent output, all of it to itself
PeerSpend(uTxO) ==
    PeerTx(<<RefOf(uTxO)>>, <<TxOut(PeerAddress, uTxO.amount)>>, TRUE, TRUE)

\* the peer spends one unspent output and pays the wallet of node 1 the change
PeerSplit(uTxO) ==
    PeerTx(<<RefOf(uTxO)>>,
           <<TxOut(PeerAddress, 10), TxOut(getPublicFromWallet(1), uTxO.amount - 10)>>,
           TRUE, TRUE)

\* the peer spends two outputs, or one output twice
PeerSpendTwo(uTxO1, uTxO2) ==
    PeerTx(<<RefOf(uTxO1), RefOf(uTxO2)>>,
           <<TxOut(PeerAddress, uTxO1.amount + uTxO2.amount)>>, TRUE, TRUE)

\* a transaction without inputs
PeerSpendNone == PeerTx(<<>>, <<TxOut(PeerAddress, 0)>>, TRUE, TRUE)

\* spends of an output that a validation has to refuse: unbalanced, unsigned,
\* with a wrong id, of an output that does not exist, to a malformed address
PeerBadSpends(uTxO) ==
    { PeerTx(<<RefOf(uTxO)>>, <<TxOut(PeerAddress, uTxO.amount + 10)>>, TRUE, TRUE),
      PeerTx(<<RefOf(uTxO)>>, <<TxOut(PeerAddress, uTxO.amount)>>, FALSE, TRUE),
      PeerTx(<<RefOf(uTxO)>>, <<TxOut(PeerAddress, uTxO.amount)>>, TRUE, FALSE),
      PeerTx(<<<<uTxO.txOutId, uTxO.txOutIndex + 2>>>>,
             <<TxOut(PeerAddress, uTxO.amount)>>, TRUE, TRUE) }

PeerTxs(aUnspentTxOuts) ==
    LET all == 1..Len(aUnspentTxOuts)
    IN  {PeerSpend(aUnspentTxOuts[i]) : i \in all}
        \cup {PeerSplit(aUnspentTxOuts[i]) : i \in all}
        \cup {PeerSpendTwo(aUnspentTxOuts[p[1]], aUnspentTxOuts[p[2]]) :
                p \in {q \in all \X all : q[1] <= q[2]}}
        \cup PeerBadSpends(aUnspentTxOuts[Len(aUnspentTxOuts)])
        \cup {PeerSpendNone}

\* the first transaction of a block, as it may be written
CoinbaseVariants(address, blockIndex) ==
    LET good == getCoinbaseTransaction(address, blockIndex)
        made(txIns, txOuts) ==
            Transaction(getTransactionId(Transaction(EmptyString, txIns, txOuts)),
                        txIns, txOuts)
    IN  { good,
          made(<<TxIn(EmptyString, blockIndex, Sign(PeerKey, good.id))>>, good.txOuts),
          made(<<TxIn(good.id, blockIndex, EmptyString)>>, good.txOuts),
          made(<<TxIn(EmptyString, blockIndex + 1, EmptyString)>>, good.txOuts),
          made(good.txIns, <<TxOut(address, COINBASE_AMOUNT + 1)>>),
          Transaction(EmptyString, good.txIns, good.txOuts),
          made(good.txIns \o good.txIns, good.txOuts),
          made(good.txIns, good.txOuts \o good.txOuts),
          made(<<>>, good.txOuts) }

\* the data of a block of the peer on top of a chain whose UTXO list is given
PeerData(aUnspentTxOuts, blockIndex) ==
    LET good == getCoinbaseTransaction(PeerAddress, blockIndex)
        all == 1..Len(aUnspentTxOuts)
    IN  {<<good>>}
        \cup {<<good, t>> : t \in PeerTxs(aUnspentTxOuts)}
        \cup {<<good, PeerSpend(aUnspentTxOuts[p[1]]), PeerSpend(aUnspentTxOuts[p[2]])>> :
                p \in {q \in all \X all : q[1] <= q[2]}}
        \cup {<<>>, <<PeerSpendNone>>}

\* a block of the peer on top of previousBlock, mined for its difficulty
PeerBlock(previousBlock, timestamp, data, difficulty) ==
    findBlock(previousBlock.index + 1, previousBlock.hash, timestamp, data, difficulty)

\* the same block with the nonce left at 0, hashed as it is
UnminedBlock(previousBlock, timestamp, data, difficulty) ==
    Block(previousBlock.index + 1,
          calculateHash(previousBlock.index + 1, previousBlock.hash, timestamp, data,
                        difficulty, 0),
          previousBlock.hash, timestamp, data, difficulty, 0)

\* blocks that a validation has to refuse or that do not extend the head
Tampered(st, currentTimestamp) ==
    LET held == getLatestBlock(st)
        data == <<getCoinbaseTransaction(PeerAddress, held.index + 1)>>
        b == PeerBlock(held, currentTimestamp, data, 0)
        late == PeerBlock(held, currentTimestamp + TimestampTolerance, data, 0)
        early == PeerBlock(held, held.timestamp - TimestampTolerance, data, 0)
        skipped == findBlock(held.index + 2, held.hash, currentTimestamp,
                             <<getCoinbaseTransaction(PeerAddress, held.index + 2)>>, 0)
        detached == findBlock(held.index + 1, (held.hash + 1) % HashSpace,
                              currentTimestamp, data, 0)
    IN  { [b EXCEPT !.hash = (b.hash + 1) % HashSpace],
          [b EXCEPT !.nonce = b.nonce + 1],
          [b EXCEPT !.hash = NotAString],
          late, early, skipped, detached, held }

\* the single blocks a peer may send in a RESPONSE_BLOCKCHAIN
PeerBlocks(st, currentTimestamp) ==
    LET held == getLatestBlock(st)
        good == <<getCoinbaseTransaction(PeerAddress, held.index + 1)>>
    IN  {PeerBlock(held, currentTimestamp, data, 0) :
            data \in PeerData(st.unspentTxOuts, held.index + 1)}
        \cup {PeerBlock(held, currentTimestamp, good, difficulty) :
                difficulty \in 1..MaxDifficulty}
        \cup {UnminedBlock(held, currentTimestamp, good, difficulty) :
                difficulty \in 1..MaxDifficulty}
        \cup Tampered(st, currentTimestamp)

\* the data of a block inside a chain of the peer: a coinbase, alone or with
\* the peer spending the first output it owns
ForkData(aUnspentTxOuts, blockIndex) ==
    LET good == getCoinbaseTransaction(PeerAddress, blockIndex)
        mine == findUnspentTxOuts(PeerAddress, aUnspentTxOuts)
    IN  {<<good>>}
        \cup (IF mine = <<>> THEN {} ELSE {<<good, PeerSplit(mine[1])>>})

\* the chains that extend aBlockchain by count blocks of the peer
RECURSIVE Extensions(_, _, _, _)
Extensions(aBlockchain, aUnspentTxOuts, count, currentTimestamp) ==
    IF count = 0 THEN {aBlockchain}
    ELSE LET previousBlock == aBlockchain[Len(aBlockchain)]
         IN  UNION {
               LET b == PeerBlock(previousBlock, currentTimestamp, c[1], c[2])
                   processed == processTransactions(c[1], aUnspentTxOuts, b.index)
               IN  IF processed.ok
                   THEN Extensions(Append(aBlockchain, b), processed.utxos,
                                   count - 1, currentTimestamp)
                   ELSE {}
               : c \in ForkData(aUnspentTxOuts, previousBlock.index + 1)
                       \X (0..MaxDifficulty) }

\* the chains a peer may send in a RESPONSE_BLOCKCHAIN: the genesis block
\* continued by blocks of the peer, and such a chain made invalid
PeerChains(currentTimestamp) ==
    LET forks ==
            UNION { Extensions(<<genesisBlock>>,
                               isValidChain(<<genesisBlock>>, currentTimestamp).utxos,
                               count, currentTimestamp) :
                    count \in 2..(MaxChain - 1) }
        one == CHOOSE c \in forks : Len(c) = MaxChain
    IN  forks
        \cup {[one EXCEPT ![1].timestamp = @ + 1], [one EXCEPT ![2].nonce = @ + 1],
              [one EXCEPT ![MaxChain].data = <<>>]}

\* the times the clock may show, and the chains of the peer at each
Times == {StartTime + k * TimestampTolerance : k \in 0..MaxTicks}

PeerChainsAt == [currentTimestamp \in Times |-> PeerChains(currentTimestamp)]

\* the lists of transactions a peer may send in a RESPONSE_TRANSACTION_POOL
PeerPools(st) ==
    LET all == 1..Len(st.unspentTxOuts)
        last == st.unspentTxOuts[Len(st.unspentTxOuts)]
        txs == {PeerSpend(st.unspentTxOuts[i]) : i \in all}
               \cup {PeerSpendTwo(st.unspentTxOuts[i], st.unspentTxOuts[i]) : i \in all}
               \cup PeerBadSpends(last)
               \cup {PeerSpendNone}
    IN  {<<t>> : t \in txs}
        \cup {<<t, PeerSpend(last)>> : t \in PeerBadSpends(last) \cup {PeerSpendNone}}

\* the block data a user may post to mineRawBlock
RawData(n, st) ==
    {<<c>> : c \in CoinbaseVariants(getPublicFromWallet(n),
                                    getLatestBlock(st).index + 1)}
    \cup {<<>>}

-----------------------------------------------------------------------------
(* The state machine of one node and its peer.  A run ends when the chain   *)
(* of the node has MaxChain blocks.                                         *)

\* node 1 has no socket
NoSockets == <<>>

\* no findBlock is running
NoMining == <<>>

\* no session is open between the nodes
NoSession == [open |-> FALSE, chains |-> <<>>, timers |-> {}]

\* lastOp tells the last handler that changed the node's state or sent a message
LastOp(op, outcome) == [op |-> op, ret |-> outcome.ret, sent |-> outcome.sent]

\* a node's state after a handler; a handler that changed nothing and sent
\* nothing leaves no trace
Commit(n, op, outcome) ==
    /\ blockchain' = [blockchain EXCEPT ![n] = outcome.st.blockchain]
    /\ unspentTxOuts' = [unspentTxOuts EXCEPT ![n] = outcome.st.unspentTxOuts]
    /\ transactionPool' = [transactionPool EXCEPT ![n] = outcome.st.transactionPool]
    /\ lastOp' = IF outcome.st = StateOf(n) /\ outcome.sent = <<>>
                 THEN lastOp
                 ELSE LastOp(op, outcome)

Init ==
    /\ blockchain = [n \in Nodes |-> <<genesisBlock>>]
    /\ unspentTxOuts = [n \in Nodes |-> processTransactions(genesisBlock.data, <<>>, 0).utxos]
    /\ transactionPool = [n \in Nodes |-> <<>>]
    /\ now = StartTime
    /\ ticks = 0
    /\ channel = [n \in Nodes |-> <<>>]
    /\ lastOp = [op |-> "init", ret |-> TRUE, sent |-> <<>>]
    /\ session = NoSession
    /\ sockets = <<>>
    /\ ws = NoSockets
    /\ mining = NoMining

Tick ==
    /\ ticks < MaxTicks
    /\ ticks' = ticks + 1
    /\ now' = now + TimestampTolerance
    /\ UNCHANGED <<blockchain, unspentTxOuts, transactionPool, channel, lastOp, session,
                   sockets, ws, mining>>

\* POST /mineBlock
MineBlock(n) ==
    /\ Len(blockchain[n]) < MaxChain
    /\ LET st == StateOf(n)
           r == generateNextBlock(st, getPublicFromWallet(n), now)
       IN  Commit(n, "mineBlock",
                  Outcome(r.ret, r.st, IF r.ret THEN <<responseLatestMsg(r.st)>> ELSE <<>>))
    /\ UNCHANGED <<now, ticks, channel, session, sockets, ws, mining>>

\* POST /mineRawBlock
MineRawBlock(n) ==
    /\ Len(blockchain[n]) < MaxChain
    /\ \E blockData \in RawData(n, StateOf(n)) :
          Commit(n, "mineRawBlock", mineRaw(StateOf(n), blockData, now))
    /\ UNCHANGED <<now, ticks, channel, session, sockets, ws, mining>>

\* POST /mineTransaction
MineTransaction(n) ==
    /\ Len(blockchain[n]) < MaxChain
    /\ \E address \in Receivers, amount \in Amounts :
          Commit(n, "mineTransaction",
                 generatenextBlockWithTransaction(StateOf(n), getPrivateFromWallet(n),
                                                  address, amount, now))
    /\ UNCHANGED <<now, ticks, channel, session, sockets, ws, mining>>

\* POST /sendTransaction
SendTransaction(n) ==
    /\ Len(blockchain[n]) < MaxChain
    /\ Len(transactionPool[n]) < MaxPool
    /\ \E address \in Receivers, amount \in Amounts :
          Commit(n, "sendTransaction",
                 sendTransaction(StateOf(n), getPrivateFromWallet(n), address, amount))
    /\ UNCHANGED <<now, ticks, channel, session, sockets, ws, mining>>

\* a RESPONSE_BLOCKCHAIN of the peer arrives
ReceiveBlockchain(n) ==
    /\ Len(blockchain[n]) < MaxChain
    /\ \E receivedBlocks \in {<<b>> : b \in PeerBlocks(StateOf(n), now)}
                             \cup PeerChainsAt[now] \cup {<<>>} :
          LET handled == handleBlockchainResponse(StateOf(n), receivedBlocks, now)
          IN  Commit(n, handled.call, handled)
    /\ UNCHANGED <<now, ticks, channel, session, sockets, ws, mining>>

\* a RESPONSE_TRANSACTION_POOL of the peer arrives
ReceiveTransactionPool(n) ==
    /\ Len(blockchain[n]) < MaxChain
    /\ \E receivedTransactions \in PeerPools(StateOf(n)) :
          /\ Len(transactionPool[n]) + Len(receivedTransactions) <= MaxPool
          /\ Commit(n, "handleReceivedTransactions",
                    handleReceivedTransactions(StateOf(n), receivedTransactions,
                                               [ret |-> FALSE, sent |-> <<>>]))
    /\ UNCHANGED <<now, ticks, channel, session, sockets, ws, mining>>

Next ==
    \/ Tick
    \/ MineBlock(1)
    \/ MineRawBlock(1)
    \/ MineTransaction(1)
    \/ SendTransaction(1)
    \/ ReceiveBlockchain(1)
    \/ ReceiveTransactionPool(1)

Spec == Init /\ [][Next]_vars

-----------------------------------------------------------------------------
(* Two honest nodes and the session between them.  Nothing is mined: the    *)
(* nodes hold chains they took earlier and only exchange messages.          *)

MaxNetDifficulty == 2   \* highest difficulty of a block of these chains

\* the chains that extend aBlockchain by at most count blocks, each with a
\* coinbase alone and mined for the difficulty it declares, 0 or the highest
RECURSIVE MinedChains(_, _)
MinedChains(aBlockchain, count) ==
    IF count = 0 THEN {aBlockchain}
    ELSE {aBlockchain}
         \cup UNION {
               LET previousBlock == aBlockchain[Len(aBlockchain)]
                   data == <<getCoinbaseTransaction(PeerAddress, previousBlock.index + 1)>>
               IN  MinedChains(Append(aBlockchain,
                                      PeerBlock(previousBlock, StartTime, data, difficulty)),
                               count - 1)
               : difficulty \in {0, MaxNetDifficulty} }

NetChains == MinedChains(<<genesisBlock>>, MaxChain - 1)

\* SHA-256 gives two different blocks two different hashes
CollisionFree(aBlockchain, bBlockchain) ==
    LET blocks == {aBlockchain[i] : i \in 1..Len(aBlockchain)}
                  \cup {bBlockchain[i] : i \in 1..Len(bBlockchain)}
    IN  \A a, b \in blocks : a.hash = b.hash => a = b

\* the pairs of valid chains of different accumulated difficulty
NetPairs ==
    {p \in NetChains \X NetChains :
        /\ getAccumulatedDifficulty(p[1]) # getAccumulatedDifficulty(p[2])
        /\ CollisionFree(p[1], p[2])}

InitNet ==
    /\ blockchain \in {[n \in Nodes |-> p[n]] : p \in NetPairs}
    /\ unspentTxOuts = [n \in Nodes |-> isValidChain(blockchain[n], StartTime).utxos]
    /\ transactionPool = [n \in Nodes |-> <<>>]
    /\ now = StartTime
    /\ ticks = 0
    /\ channel = [n \in Nodes |-> <<>>]
    /\ lastOp = [op |-> "init", ret |-> TRUE, sent |-> <<>>]
    /\ session = NoSession
    /\ sockets = <<>>
    /\ ws = NoSockets
    /\ mining = NoMining

\* connectToPeers and the 'connection' of initP2PServer: each side runs
\* initConnection, which writes a QUERY_LATEST and sets a timer
Connect ==
    /\ ~session.open
    /\ session' = [open |-> TRUE, chains |-> blockchain, timers |-> Nodes]
    /\ channel' = [n \in Nodes |-> Append(channel[n], write(queryChainLengthMsg))]
    /\ UNCHANGED <<blockchain, unspentTxOuts, transactionPool, now, ticks, lastOp, sockets, ws,
                   mining>>

\* the timer of initConnection fires: broadcast(queryTransactionPoolMsg())
QueryPoolTimer(n) ==
    /\ session.open
    /\ n \in session.timers
    /\ session' = [session EXCEPT !.timers = @ \ {n}]
    /\ channel' = [channel EXCEPT ![Other(n)] = Append(@, write(queryTransactionPoolMsg))]
    /\ UNCHANGED <<blockchain, unspentTxOuts, transactionPool, now, ticks, lastOp, sockets, ws,
                   mining>>

\* the next message towards node n arrives; what the handler sends goes to
\* the other node
Deliver(n) ==
    /\ channel[n] # <<>>
    /\ \E handled \in {initMessageHandler(StateOf(n), Head(channel[n]), now)} :
           /\ blockchain' = [blockchain EXCEPT ![n] = handled.st.blockchain]
           /\ unspentTxOuts' = [unspentTxOuts EXCEPT ![n] = handled.st.unspentTxOuts]
           /\ transactionPool' = [transactionPool EXCEPT ![n] = handled.st.transactionPool]
           /\ channel' = [channel EXCEPT
                             ![n] = Tail(@),
                             ![Other(n)] = @ \o Map(handled.reply \o handled.sent, write)]
           /\ lastOp' = LastOp("initMessageHandler", handled)
    /\ UNCHANGED <<now, ticks, session, sockets, ws, mining>>

NextNet ==
    \/ Connect
    \/ QueryPoolTimer(1)
    \/ QueryPoolTimer(2)
    \/ Deliver(1)
    \/ Deliver(2)

\* every timer fires and every message sent is delivered and handled
FairNet ==
    /\ WF_vars(Connect)
    /\ \A n \in Nodes : WF_vars(QueryPoolTimer(n)) /\ WF_vars(Deliver(n))

SpecNet == InitNet /\ [][NextNet]_vars /\ FairNet

-----------------------------------------------------------------------------
(* One node and the sessions it has with its peers.  A socket is the one of *)
(* the ws library: when its transport is gone it stays registered until its *)
(* events fire, and a ws.send on it fails in the meantime.  The node is     *)
(* left alone once its chain has MaxPeersChain blocks.                      *)

MaxSessions == 2        \* sockets the node is given
MaxPeersChain == 2      \* length of the chain at which the node is left alone

Sessions == 1..MaxSessions

\* the type of a message that was never written
NoType == 0 - 1

\* a socket: its readyState, the events that are yet to fire on it, whether
\* the timer of initConnection is yet to fire, and the type of the first
\* message written to it
Socket(readyState, events, timer, first) ==
    [readyState |-> readyState, events |-> events, timer |-> timer, first |-> first]

NewSocket == Socket("CONNECTING", <<>>, FALSE, NoType)

\* what ws.send does on a socket that is not open: it throws, or it gives
\* the error to a callback that was not passed
OnSend == {"throws", "drops"}

\* Array.prototype.indexOf, from 0, and -1 for an element that is not there
indexOf(array, element) ==
    IF \E i \in 1..Len(array) : array[i] = element
    THEN (CHOOSE i \in 1..Len(array) :
              array[i] = element /\ \A j \in 1..(i - 1) : array[j] # element) - 1
    ELSE 0 - 1

\* Array.prototype.splice(start, 1): a negative start counts from the end
splice(array, start) ==
    LET from == IF start < 0
                THEN (IF Len(array) + start < 0 THEN 0 ELSE Len(array) + start)
                ELSE start
    IN  IF from >= Len(array) THEN array
        ELSE SubSeq(array, 1, from) \o SubSeq(array, from + 2, Len(array))

\* the listener of 'close' and of 'error' that initErrorHandler sets
closeConnection(aSockets, myWs) == splice(aSockets, indexOf(aSockets, myWs))

\* sockets.forEach((socket) => write(socket, message)): the sockets that were
\* written to, and whether a ws.send threw, which ends the forEach
RECURSIVE broadcastFrom(_, _, _, _)
broadcastFrom(aSockets, aWs, onSend, writtenTo) ==
    IF aSockets = <<>> THEN [written |-> writtenTo, thrown |-> FALSE]
    ELSE IF aWs[Head(aSockets)].readyState = "OPEN"
    THEN broadcastFrom(Tail(aSockets), aWs, onSend, writtenTo \cup {Head(aSockets)})
    ELSE IF onSend = "throws"
    THEN [written |-> writtenTo, thrown |-> TRUE]
    ELSE broadcastFrom(Tail(aSockets), aWs, onSend, writtenTo)

broadcast(aSockets, aWs, onSend) == broadcastFrom(aSockets, aWs, onSend, {})

\* the outcomes of a broadcast, one for each thing ws.send may do
Broadcasts(aSockets, aWs) == {broadcast(aSockets, aWs, onSend) : onSend \in OnSend}

\* the sessions that are registered
Registered(aSockets) == {aSockets[i] : i \in 1..Len(aSockets)}

\* the registered sessions a ws.send succeeds on
Reachable == {s \in Registered(sockets) : ws[s].readyState = "OPEN"}

\* the texts a peer may send on a session with a node in state st
InboundTexts(st, currentTimestamp) ==
    LET held == getLatestBlock(st)
        coinbase(blockIndex) == getCoinbaseTransaction(PeerAddress, blockIndex)
        last == st.unspentTxOuts[Len(st.unspentTxOuts)]
        missing == PeerTx(<<<<last.txOutId, last.txOutIndex + 2>>>>,
                          <<TxOut(PeerAddress, last.amount)>>, TRUE, TRUE)
        unbalanced == PeerTx(<<RefOf(last)>>, <<TxOut(PeerAddress, last.amount + 10)>>,
                             TRUE, TRUE)
        next == PeerBlock(held, currentTimestamp, <<coinbase(held.index + 1)>>, 0)
        raising == PeerBlock(held, currentTimestamp,
                             <<coinbase(held.index + 1), missing>>, 0)
        ahead == findBlock(held.index + 2, (held.hash + 1) % HashSpace, currentTimestamp,
                           <<coinbase(held.index + 2)>>, 0)
        fork1 == PeerBlock(genesisBlock, currentTimestamp, <<coinbase(1)>>, MaxDifficulty)
        fork2 == PeerBlock(fork1, currentTimestamp, <<coinbase(2)>>, MaxDifficulty)
        fork == <<genesisBlock, fork1, fork2>>
        blocks == {<<>>, <<next>>, <<[next EXCEPT !.hash = (@ + 1) % HashSpace]>>,
                   <<raising>>, <<ahead>>, fork, [fork EXCEPT ![2].nonce = @ + 1]}
        pools == {<<PeerSpend(last)>>, <<unbalanced, PeerSpend(last)>>, <<missing>>}
    IN  {Malformed, write(Message(5, NullData)),
         write(queryChainLengthMsg), write(queryAllMsg), write(queryTransactionPoolMsg),
         write(Message(RESPONSE_BLOCKCHAIN, Malformed)),
         write(Message(RESPONSE_TRANSACTION_POOL, NullData))}
        \cup {write(Message(RESPONSE_BLOCKCHAIN, JSONStringify(R))) : R \in blocks}
        \cup {write(Message(RESPONSE_TRANSACTION_POOL, JSONStringify(T))) : T \in pools}

\* lastOp of a handler of node 1: the handler, the socket it served, what
\* became of its messages, whether it dropped the text it was given (changed
\* nothing and wrote nothing), and whether the handler before it had dropped
\* a text of the same socket
Served(op, from, ret, sent, written, thrown, dropped) ==
    [op |-> op, from |-> from, ret |-> ret, sent |-> sent,
     written |-> written, thrown |-> thrown, dropped |-> dropped,
     afterDropped |-> lastOp.dropped /\ lastOp.from = from]

\* What a handler of node 1 leaves: the state of the node, on each socket the
\* messages written to it, and lastOp
Serve(op, from, handled) ==
    \E cast \in Broadcasts(sockets, ws) :
    \E written \in {[s \in Sessions |->
                       (IF s = from THEN handled.reply ELSE <<>>)
                       \o (IF s \in cast.written THEN handled.sent ELSE <<>>)]} :
        /\ blockchain' = [blockchain EXCEPT ![1] = handled.st.blockchain]
        /\ unspentTxOuts' = [unspentTxOuts EXCEPT ![1] = handled.st.unspentTxOuts]
        /\ transactionPool' = [transactionPool EXCEPT ![1] = handled.st.transactionPool]
        /\ ws' = [s \in Sessions |->
                    IF ws[s].first = NoType /\ written[s] # <<>>
                    THEN [ws[s] EXCEPT !.first = written[s][1].type]
                    ELSE ws[s]]
        /\ lastOp' = Served(op, from, handled.ret, handled.sent, written,
                             handled.sent # <<>> /\ cast.thrown,
                             /\ handled.st = StateOf(1)
                             /\ handled.reply = <<>>
                             /\ handled.sent = <<>>)

InitPeers ==
    /\ blockchain = [n \in Nodes |-> <<genesisBlock>>]
    /\ unspentTxOuts = [n \in Nodes |-> processTransactions(genesisBlock.data, <<>>, 0).utxos]
    /\ transactionPool = [n \in Nodes |-> <<>>]
    /\ now = StartTime
    /\ ticks = 0
    /\ channel = [n \in Nodes |-> <<>>]
    /\ lastOp = [op |-> "init", from |-> 0, ret |-> TRUE,
                 sent |-> <<>>, written |-> [s \in Sessions |-> <<>>], thrown |-> FALSE,
                 dropped |-> FALSE, afterDropped |-> FALSE]
    /\ session = NoSession
    /\ sockets = <<>>
    /\ ws = [s \in Sessions |-> NewSocket]
    /\ mining = NoMining

\* initConnection that broadcasts the QUERY_TRANSACTION_POOL at once, before
\* it writes the QUERY_LATEST
OpenSessionQueriesPoolFirst(s) ==
    /\ ws[s].readyState = "CONNECTING"
    /\ sockets' = Append(sockets, s)
    /\ ws' = [ws EXCEPT ![s] = Socket("OPEN", <<>>, FALSE, QUERY_TRANSACTION_POOL)]
    /\ lastOp' = Served("initConnection", s, FALSE, <<queryTransactionPoolMsg>>,
                         [t \in Sessions |->
                             IF t = s THEN <<queryTransactionPoolMsg, queryChainLengthMsg>>
                             ELSE IF t \in Reachable THEN <<queryTransactionPoolMsg>>
                             ELSE <<>>],
                         FALSE, FALSE)
    /\ UNCHANGED <<blockchain, unspentTxOuts, transactionPool, now, ticks, channel,
                   session, mining>>

\* 'connection' of initP2PServer and 'open' of connectToPeers: initConnection
OpenSession(s) ==
    /\ ws[s].readyState = "CONNECTING"
    /\ sockets' = Append(sockets, s)
    /\ ws' = [ws EXCEPT ![s] = Socket("OPEN", <<>>, TRUE, QUERY_LATEST)]
    /\ lastOp' = Served("initConnection", s, FALSE, <<>>,
                         [t \in Sessions |->
                             IF t = s THEN <<queryChainLengthMsg>> ELSE <<>>],
                         FALSE, FALSE)
    /\ UNCHANGED <<blockchain, unspentTxOuts, transactionPool, now, ticks, channel,
                   session, mining>>

\* 'error' of connectToPeers on a socket that never opened: it is logged
FailToOpen(s) ==
    /\ ws[s].readyState = "CONNECTING"
    /\ ws' = [ws EXCEPT ![s] = Socket("CLOSED", <<>>, FALSE, NoType)]
    /\ UNCHANGED <<blockchain, unspentTxOuts, transactionPool, now, ticks, channel,
                   lastOp, session, sockets, mining>>

\* the transport of an open socket goes: the library will emit 'close', or
\* 'error' and then 'close', and until then the socket is not open
Break(s) ==
    /\ ws[s].readyState = "OPEN"
    /\ \E events \in {<<"close">>, <<"error", "close">>} :
          ws' = [ws EXCEPT ![s] = Socket("CLOSING", events, @.timer, @.first)]
    /\ UNCHANGED <<blockchain, unspentTxOuts, transactionPool, now, ticks, channel,
                   lastOp, session, sockets, mining>>

\* the next event of a socket fires: closeConnection
Fire(s) ==
    /\ ws[s].events # <<>>
    /\ sockets' = closeConnection(sockets, s)
    /\ ws' = [ws EXCEPT ![s] =
                IF Tail(@.events) = <<>>
                THEN Socket("CLOSED", <<>>, @.timer, @.first)
                ELSE [@ EXCEPT !.events = Tail(@)]]
    /\ UNCHANGED <<blockchain, unspentTxOuts, transactionPool, now, ticks, channel,
                   lastOp, session, mining>>

\* the timer of initConnection fires: broadcast(queryTransactionPoolMsg())
QueryPool(s) ==
    /\ ws[s].timer
    /\ \E cast \in Broadcasts(sockets, ws) :
          /\ ws' = [t \in Sessions |->
                      [ws[t] EXCEPT !.timer = IF t = s THEN FALSE ELSE @,
                                    !.first = IF @ = NoType /\ t \in cast.written
                                              THEN QUERY_TRANSACTION_POOL ELSE @]]
          /\ lastOp' = Served("timer", s, FALSE, <<queryTransactionPoolMsg>>,
                               [t \in Sessions |->
                                   IF t \in cast.written
                                   THEN <<queryTransactionPoolMsg>> ELSE <<>>],
                               cast.thrown, FALSE)
    /\ UNCHANGED <<blockchain, unspentTxOuts, transactionPool, now, ticks, channel,
                   session, sockets, mining>>

\* a text arrives on an open socket: the listener of 'message'
Receive(s) ==
    /\ ws[s].readyState = "OPEN"
    /\ Len(blockchain[1]) < MaxPeersChain
    /\ \E text \in InboundTexts(StateOf(1), now) :
          Serve("initMessageHandler", s, initMessageHandler(StateOf(1), text, now))
    /\ UNCHANGED <<now, ticks, channel, session, sockets, mining>>

\* POST /mineBlock
MineBlockAndBroadcast ==
    /\ Len(blockchain[1]) < MaxPeersChain
    /\ \E r \in {generateNextBlock(StateOf(1), getPublicFromWallet(1), now)} :
          Serve("mineBlock", 0,
                Handled(r.ret, r.st, <<>>,
                        IF r.ret THEN <<responseLatestMsg(r.st)>> ELSE <<>>))
    /\ UNCHANGED <<now, ticks, channel, session, sockets, mining>>

\* POST /sendTransaction
SendTransactionAndBroadcast ==
    /\ Len(transactionPool[1]) < MaxPool
    /\ \E r \in {sendTransaction(StateOf(1), getPrivateFromWallet(1), PeerAddress, 10)} :
          Serve("sendTransaction", 0, Handled(r.ret, r.st, <<>>, r.sent))
    /\ UNCHANGED <<now, ticks, channel, session, sockets, mining>>

NextPeers ==
    \/ \E s \in Sessions : OpenSession(s)
    \/ \E s \in Sessions : FailToOpen(s)
    \/ \E s \in Sessions : Break(s)
    \/ \E s \in Sessions : Fire(s)
    \/ \E s \in Sessions : QueryPool(s)
    \/ \E s \in Sessions : Receive(s)
    \/ MineBlockAndBroadcast
    \/ SendTransactionAndBroadcast

SpecPeers == InitPeers /\ [][NextPeers]_vars

-----------------------------------------------------------------------------
(* One node that mines up to the first retarget of the difficulty.  The    *)
(* clock moves MaxWaits times by WaitStep seconds, and the peer offers its *)
(* blocks once the chain has QuietUntil blocks.                            *)

MaxRetargetChain == 12  \* longest chain of the node: the blocks 0 to 11
MaxWaits == 2           \* clock steps
WaitStep == 125         \* seconds of a clock step
QuietUntil == 10        \* length of the chain at which the peer starts to offer blocks
MaxDeclared == 2        \* largest difficulty the peer declares

InitRetarget == Init

\* time passes
Wait ==
    /\ ticks < MaxWaits
    /\ ticks' = ticks + 1
    /\ now' = now + WaitStep
    /\ UNCHANGED <<blockchain, unspentTxOuts, transactionPool, channel, lastOp, session,
                   sockets, ws, mining>>

\* POST /mineBlock
MineNext ==
    /\ Len(blockchain[1]) < MaxRetargetChain
    /\ \E r \in {generateNextBlock(StateOf(1), getPublicFromWallet(1), now)} :
          Commit(1, "mineBlock",
                 Outcome(r.ret, r.st, IF r.ret THEN <<responseLatestMsg(r.st)>> ELSE <<>>))
    /\ UNCHANGED <<now, ticks, channel, session, sockets, ws, mining>>

\* the block the peer mines on top of the head with the difficulty it declares
DeclaredBlock(st, currentTimestamp, difficulty) ==
    PeerBlock(getLatestBlock(st), currentTimestamp,
              <<getCoinbaseTransaction(PeerAddress, getLatestBlock(st).index + 1)>>,
              difficulty)

\* a RESPONSE_BLOCKCHAIN with the latest block of the peer arrives
TakeNext ==
    /\ Len(blockchain[1]) >= QuietUntil
    /\ Len(blockchain[1]) < MaxRetargetChain
    /\ \E difficulty \in 0..MaxDeclared :
       \E handled \in {handleBlockchainResponse(
                           StateOf(1), <<DeclaredBlock(StateOf(1), now, difficulty)>>, now)} :
          Commit(1, handled.call, handled)
    /\ UNCHANGED <<now, ticks, channel, session, sockets, ws, mining>>

NextRetarget ==
    \/ Wait
    \/ MineNext
    \/ TakeNext

SpecRetarget == InitRetarget /\ [][NextRetarget]_vars

-----------------------------------------------------------------------------
(* One node and a peer whose blocks hold a transaction of three outputs and *)
(* a coinbase whose TxIn names an output.  The node is left alone once its  *)
(* chain has MaxSupplyChain blocks.                                         *)

MaxSupplyChain == 4     \* longest chain of the node: the blocks 0 to 3

InitSupply == Init

\* the peer spends one unspent output into three: 10 to itself, 10 to the
\* wallet of node 1 and the rest to itself
PeerSpread(uTxO) ==
    PeerTx(<<RefOf(uTxO)>>,
           <<TxOut(PeerAddress, 10), TxOut(getPublicFromWallet(1), 10),
             TxOut(PeerAddress, uTxO.amount - 20)>>,
           TRUE, TRUE)

\* a coinbase of the peer whose TxIn has the txOutId of an output and, as
\* txOutIndex, the index of the block
CoinbaseNaming(txOutId, blockIndex) ==
    LET txIns == <<TxIn(txOutId, blockIndex, EmptyString)>>
        txOuts == <<TxOut(PeerAddress, COINBASE_AMOUNT)>>
    IN  Transaction(getTransactionId(Transaction(EmptyString, txIns, txOuts)),
                    txIns, txOuts)

\* the data of the blocks the peer offers on top of a chain whose UTXO list
\* is given
SupplyData(aUnspentTxOuts, blockIndex) ==
    LET good == getCoinbaseTransaction(PeerAddress, blockIndex)
        all == 1..Len(aUnspentTxOuts)
    IN  {<<good>>}
        \cup {<<good, PeerSpend(aUnspentTxOuts[i])>> : i \in all}
        \cup {<<good, PeerSpread(aUnspentTxOuts[i])>> :
                i \in {j \in all : aUnspentTxOuts[j].amount = COINBASE_AMOUNT}}
        \cup {<<CoinbaseNaming(aUnspentTxOuts[i].txOutId, blockIndex)>> : i \in all}

\* a RESPONSE_BLOCKCHAIN with the latest block of the peer arrives
TakeData ==
    /\ Len(blockchain[1]) < MaxSupplyChain
    /\ \E data \in SupplyData(unspentTxOuts[1], Len(blockchain[1])) :
       \E handled \in {handleBlockchainResponse(
                           StateOf(1),
                           <<PeerBlock(getLatestBlock(StateOf(1)), now, data, 0)>>, now)} :
          Commit(1, handled.call, handled)
    /\ UNCHANGED <<now, ticks, channel, session, sockets, ws, mining>>

\* POST /mineBlock
MineOwn ==
    /\ Len(blockchain[1]) < MaxSupplyChain
    /\ \E r \in {generateNextBlock(StateOf(1), getPublicFromWallet(1), now)} :
          Commit(1, "mineBlock",
                 Outcome(r.ret, r.st, IF r.ret THEN <<responseLatestMsg(r.st)>> ELSE <<>>))
    /\ UNCHANGED <<now, ticks, channel, session, sockets, ws, mining>>

NextSupply ==
    \/ TakeData
    \/ MineOwn

SpecSupply == InitSupply /\ [][NextSupply]_vars

-----------------------------------------------------------------------------
(* One node and a peer that also sends blocks without a difficulty.  The    *)
(* node is left alone once its chain has MaxChain blocks.                   *)

InitWork == Init

\* a RESPONSE_BLOCKCHAIN arrives with one block of the peer on top of the
\* head, in which the field difficulty is missing
TakeUndeclared ==
    /\ Len(blockchain[1]) < MaxChain
    /\ \E handled \in {handleBlockchainResponse(
                           StateOf(1),
                           <<DeclaredBlock(StateOf(1), now, NoDifficulty)>>, now)} :
          Commit(1, handled.call, handled)
    /\ UNCHANGED <<now, ticks, channel, session, sockets, ws, mining>>

NextWork ==
    \/ TakeUndeclared
    \/ ReceiveBlockchain(1)
    \/ MineBlock(1)

SpecWork == InitWork /\ [][NextWork]_vars

-----------------------------------------------------------------------------
(* One node whose findBlock is followed nonce by nonce.  The node is one   *)
(* thread: the handler of POST /mineBlock runs from its first statement to  *)
(* its last, findBlock and its loop included, and the listener of 'message' *)
(* runs for a text that arrived only once no handler is running.            *)

MaxMiningChain == 3     \* longest chain of the node
MaxQueued == 1          \* texts of the peer that wait for their listener

\* the search of findBlock: its arguments and the nonce it is about to try
Search(index, previousHash, timestamp, data, difficulty, nonce) ==
    [index |-> index, previousHash |-> previousHash, timestamp |-> timestamp,
     data |-> data, difficulty |-> difficulty, nonce |-> nonce]

\* calculateHash for the nonce the search is at
HashOfSearch(search) ==
    calculateHash(search.index, search.previousHash, search.timestamp, search.data,
                  search.difficulty, search.nonce)

InitMining == Init

\* the peer mines a block on top of the head of the node and writes it to the
\* socket: the text waits for the listener of 'message'
Arrive ==
    /\ Len(blockchain[1]) < MaxMiningChain
    /\ Len(channel[1]) < MaxQueued
    /\ \E difficulty \in 0..MaxDeclared :
          channel' = [channel EXCEPT ![1] =
                         Append(@, write(Message(RESPONSE_BLOCKCHAIN,
                                    JSONStringify(<<DeclaredBlock(StateOf(1), now,
                                                                  difficulty)>>))))]
    /\ UNCHANGED <<blockchain, unspentTxOuts, transactionPool, now, ticks, lastOp, session,
                   sockets, ws, mining>>

\* the listener of 'message' runs for the text that waited longest
HandleMessage ==
    /\ mining = NoMining
    /\ channel[1] # <<>>
    /\ \E handled \in {initMessageHandler(StateOf(1), Head(channel[1]), now)} :
          Commit(1, "initMessageHandler", Outcome(handled.ret, handled.st, handled.sent))
    /\ channel' = [channel EXCEPT ![1] = Tail(@)]
    /\ UNCHANGED <<now, ticks, session, sockets, ws, mining>>

\* POST /mineBlock: generateNextBlock and generateRawNextBlock up to the loop
\* of findBlock
StartMining ==
    /\ mining = NoMining
    /\ Len(blockchain[1]) < MaxMiningChain
    /\ mining' = Search(getLatestBlock(StateOf(1)).index + 1,
                        getLatestBlock(StateOf(1)).hash, now,
                        <<getCoinbaseTransaction(getPublicFromWallet(1),
                                                 getLatestBlock(StateOf(1)).index + 1)>>
                           \o transactionPool[1],
                        getDifficulty(blockchain[1], Len(blockchain[1])), 0)
    /\ UNCHANGED <<blockchain, unspentTxOuts, transactionPool, now, ticks, channel, lastOp,
                   session, sockets, ws>>

\* one turn of the loop of findBlock whose hash does not match: nonce++
TryNonce ==
    /\ mining # NoMining
    /\ ~hashMatchesDifficulty(HashOfSearch(mining), mining.difficulty)
    /\ mining' = [mining EXCEPT !.nonce = @ + 1]
    /\ UNCHANGED <<blockchain, unspentTxOuts, transactionPool, now, ticks, channel, lastOp,
                   session, sockets, ws>>

\* the turn of the loop whose hash matches, and the rest of
\* generateRawNextBlock: addBlockToChain and broadcastLatest
FinishMining ==
    /\ mining # NoMining
    /\ hashMatchesDifficulty(HashOfSearch(mining), mining.difficulty)
    /\ \E newBlock \in {Block(mining.index, HashOfSearch(mining), mining.previousHash,
                              mining.timestamp, mining.data, mining.difficulty,
                              mining.nonce)} :
       \E added \in {addBlockToChain(StateOf(1), newBlock, now)} :
          Commit(1, "mineBlock",
                 Outcome(added.ret, added.st,
                         IF added.ret THEN <<responseLatestMsg(added.st)>> ELSE <<>>))
    /\ mining' = NoMining
    /\ UNCHANGED <<now, ticks, channel, session, sockets, ws>>

NextMining ==
    \/ Wait
    \/ Arrive
    \/ HandleMessage
    \/ StartMining
    \/ TryNonce
    \/ FinishMining

SpecMining == InitMining /\ [][NextMining]_vars

-----------------------------------------------------------------------------
(* Properties of the chain *)

\* the blocks of node n's chain after the genesis block, by position
LaterBlocks(n) == 2..Len(blockchain[n])

\* C1: in every reachable state of a node, whatever it mined, accepted from a
\* peer block by block or adopted as a whole chain, the first block is the
\* genesis block and every later block has the index of its position and the
\* hash of the block before it as previousHash.
ChainIsLinked ==
    \A n \in Nodes :
        /\ blockchain[n][1] = genesisBlock
        /\ \A i \in LaterBlocks(n) :
              /\ blockchain[n][i].index = i - 1
              /\ blockchain[n][i].previousHash = blockchain[n][i - 1].hash

\* a chain of three blocks that the node took as a whole from its peer
ChainIsLinkedWitness ==
    /\ lastOp.op = "replaceChain"
    /\ lastOp.ret
    /\ Len(blockchain[1]) = 3

\* C2: every block after the genesis block in a node's chain has the hash
\* that its own fields give and a hash that begins with at least as many zero
\* bits as the difficulty it declares.
BlocksMeetDeclaredDifficulty ==
    \A n \in Nodes : \A i \in LaterBlocks(n) :
        /\ hashMatchesBlockContent(blockchain[n][i])
        /\ hashMatchesDifficulty(blockchain[n][i].hash, blockchain[n][i].difficulty)

\* the fold of processTransactions over the first k blocks of a chain
RECURSIVE FoldProcessTransactions(_, _)
FoldProcessTransactions(aBlockchain, k) ==
    IF k = 0 THEN [ok |-> TRUE, utxos |-> <<>>]
    ELSE LET before == FoldProcessTransactions(aBlockchain, k - 1)
         IN  IF ~before.ok THEN Null
             ELSE processTransactions(aBlockchain[k].data, before.utxos,
                                      aBlockchain[k].index)

\* C3: in every reachable state the UTXO list of a node is what folding
\* processTransactions over its chain, in order and from the empty list, gives.
UnspentTxOutsAreTheFold ==
    \A n \in Nodes :
        LET folded == FoldProcessTransactions(blockchain[n], Len(blockchain[n]))
        IN  folded.ok /\ folded.utxos = unspentTxOuts[n]

\* a block with a transaction that spends was appended to a chain of two
UnspentTxOutsAreTheFoldWitness ==
    /\ lastOp.op = "addBlockToChain"
    /\ Len(blockchain[1]) = 3
    /\ Len(blockchain[1][3].data) = 2
    /\ Len(unspentTxOuts[1]) = 3

-----------------------------------------------------------------------------
(* Properties of the transactions *)

\* the UTXO list that the transactions of block k of node n's chain met
UnspentBefore(n, k) == FoldProcessTransactions(blockchain[n], k - 1).utxos

\* every input of the transaction names, by txOutId and txOutIndex, an
\* output of the list, and its signature is one of the owner of that output
IsAuthorized(transaction, aUnspentTxOuts) ==
    \A i \in 1..Len(transaction.txIns) :
        LET txIn == transaction.txIns[i]
            spent == findUnspentTxOut(txIn.txOutId, txIn.txOutIndex, aUnspentTxOuts)
        IN  /\ spent # <<>>
            /\ Verify(spent[1].address, transaction.id, txIn.signature)

\* C4: a transaction other than a coinbase is in a mempool or in a block only
\* if each of its inputs names an unspent output by txOutId and txOutIndex and
\* is signed by the owner of exactly that output.
SpendsAreAuthorized ==
    \A n \in Nodes :
        /\ \A k \in LaterBlocks(n) : \A j \in 2..Len(blockchain[n][k].data) :
              IsAuthorized(blockchain[n][k].data[j], UnspentBefore(n, k))
        /\ \A j \in 1..Len(transactionPool[n]) :
              IsAuthorized(transactionPool[n][j], unspentTxOuts[n])

\* the amounts of the outputs that the inputs of a transaction name
InputAmounts(transaction, aUnspentTxOuts) ==
    [i \in 1..Len(transaction.txIns) |->
        getTxInAmount(transaction.txIns[i], aUnspentTxOuts)]

OutputAmounts(transaction) ==
    [i \in 1..Len(transaction.txOuts) |-> transaction.txOuts[i].amount]

\* C5: every transaction of every block of the chain has the id that
\* getTransactionId gives it, and for every transaction other than a coinbase
\* the amounts of the outputs its inputs name add up to the amounts of its
\* own outputs.
ChainTransactionsBalance ==
    \A n \in Nodes : \A k \in 1..Len(blockchain[n]) :
        \A j \in 1..Len(blockchain[n][k].data) :
            LET t == blockchain[n][k].data[j]
            IN  /\ getTransactionId(t) = t.id
                /\ (k >= 2 /\ j >= 2) =>
                      /\ \A i \in 1..Len(t.txIns) :
                            HasTxInAmount(t.txIns[i], UnspentBefore(n, k))
                      /\ SumSeq(InputAmounts(t, UnspentBefore(n, k)))
                            = SumSeq(OutputAmounts(t))

\* the chain holds a transaction with two inputs, and one with two outputs
ChainTransactionsBalanceWitness ==
    /\ \E k \in LaterBlocks(1) : \E j \in 2..Len(blockchain[1][k].data) :
          Len(blockchain[1][k].data[j].txIns) = 2
    /\ \E k \in LaterBlocks(1) : \E j \in 2..Len(blockchain[1][k].data) :
          Len(blockchain[1][k].data[j].txOuts) = 2

\* the inputs of all the transactions of a list, as (txOutId, txOutIndex)
InputRefs(transactions) ==
    Flatten([j \in 1..Len(transactions) |->
                [i \in 1..Len(transactions[j].txIns) |->
                    <<transactions[j].txIns[i].txOutId,
                      transactions[j].txIns[i].txOutIndex>>]])

\* C6: in every reachable state every transaction of the mempool validates
\* against the node's UTXO list, and no two transactions of the mempool have
\* an input with the same (txOutId, txOutIndex).
PoolIsValidAndDisjoint ==
    \A n \in Nodes :
        /\ \A j \in 1..Len(transactionPool[n]) :
              validateTransaction(transactionPool[n][j], unspentTxOuts[n])
        /\ \A i, j \in 1..Len(transactionPool[n]) :
              i < j =>
                 \A a \in 1..Len(transactionPool[n][i].txIns) :
                 \A b \in 1..Len(transactionPool[n][j].txIns) :
                    RefOf(transactionPool[n][i].txIns[a])
                        # RefOf(transactionPool[n][j].txIns[b])

-----------------------------------------------------------------------------
(* Properties of the replacement of the chain *)

\* work(C): the sum of 2^difficulty over the blocks of C
Work(aBlockchain) ==
    SumSeq([i \in 1..Len(aBlockchain) |-> 2 ^ aBlockchain[i].difficulty])

\* the transactions of a mempool whose inputs are all in a UTXO list
Reconciled(aTransactionPool, aUnspentTxOuts) ==
    SelectSeq(aTransactionPool,
              LAMBDA tx : \A i \in 1..Len(tx.txIns) :
                  \E u \in 1..Len(aUnspentTxOuts) :
                      RefOf(aUnspentTxOuts[u]) = RefOf(tx.txIns[i]))

\* the chains of the peer, valid or not, that replaceChain may be given, each
\* with what isValidChain says of it and the UTXO list recomputed from it
ReplaceChainInputs ==
    [currentTimestamp \in Times |->
        {[chain |-> C,
          valid |-> isValidChain(C, currentTimestamp).ok,
          recomputed |-> FoldProcessTransactions(C, Len(C))] :
            C \in PeerChainsAt[currentTimestamp]}]

\* the state that replaceChain(C) is to leave a node in
ReplacedBy(st, input) ==
    IF input.valid /\ Work(input.chain) > Work(st.blockchain)
    THEN [ret |-> TRUE,
          st |-> NodeState(input.chain, input.recomputed.utxos,
                           Reconciled(st.transactionPool, input.recomputed.utxos))]
    ELSE [ret |-> FALSE, st |-> st]

\* C7: replaceChain(C) replaces the chain if and only if isValidChain(C)
\* succeeds and work(C) is strictly greater than the work of the chain held;
\* when it replaces, the chain is C, the UTXO list is the one recomputed from C
\* and the mempool is reconciled against it; when it does not, and so when the
\* two works are equal, nothing changes.
ReplaceChainIffValidAndHeavier ==
    \A n \in Nodes :
        /\ \A input \in ReplaceChainInputs[now] :
              /\ input.valid => input.recomputed.ok
              /\ replaceChain(StateOf(n), input.chain, now)
                    = ReplacedBy(StateOf(n), input)
        /\ replaceChain(StateOf(n), blockchain[n], now)
              = [ret |-> FALSE, st |-> StateOf(n)]

\* the node replaced its chain and kept a transaction in its mempool, and a
\* valid chain of the peer has the work of the chain the node holds now
ReplaceChainIffValidAndHeavierWitness ==
    /\ lastOp.op = "replaceChain"
    /\ lastOp.ret
    /\ transactionPool[1] # <<>>
    /\ \E C \in PeerChainsAt[now] :
          /\ C # blockchain[1]
          /\ isValidChain(C, now).ok
          /\ Work(C) = Work(blockchain[1])

-----------------------------------------------------------------------------
(* Properties of the transactions of a block *)

\* C9: the first transaction of every block of the chain is a coinbase: one
\* input with an empty signature, an empty txOutId and the index of the block
\* as txOutIndex, and one output of COINBASE_AMOUNT.
CoinbaseIsWellFormed ==
    \A n \in Nodes : \A k \in 1..Len(blockchain[n]) :
        LET data == blockchain[n][k].data
        IN  /\ data # <<>>
            /\ Len(data[1].txIns) = 1
            /\ data[1].txIns[1].signature = EmptyString
            /\ data[1].txIns[1].txOutId = EmptyString
            /\ data[1].txIns[1].txOutIndex = blockchain[n][k].index
            /\ Len(data[1].txOuts) = 1
            /\ data[1].txOuts[1].amount = COINBASE_AMOUNT

\* a (txOutId, txOutIndex) is named by two inputs of the transactions
NamesAnOutputTwice(transactions) ==
    LET refs == InputRefs(transactions)
    IN  \E i, j \in 1..Len(refs) : i < j /\ refs[i] = refs[j]

\* the data of the blocks that may be put on top of node n's chain
NextBlockData(n) ==
    PeerData(unspentTxOuts[n], getLatestBlock(StateOf(n)).index + 1)
    \cup RawData(n, StateOf(n))

\* C10: no block of the chain has two inputs, of one transaction or of two,
\* that name the same (txOutId, txOutIndex), and processTransactions rejects
\* the transactions of a block that has.
NoOutputNamedTwiceInBlock ==
    \A n \in Nodes :
        /\ \A k \in 1..Len(blockchain[n]) : ~NamesAnOutputTwice(blockchain[n][k].data)
        /\ \A data \in NextBlockData(n) :
              NamesAnOutputTwice(data) =>
                  ~processTransactions(data, unspentTxOuts[n],
                                       getLatestBlock(StateOf(n)).index + 1).ok

\* a block of the chain has three inputs, and a block that names an output
\* twice, in one transaction or in two, is on offer
NoOutputNamedTwiceInBlockWitness ==
    /\ \E k \in LaterBlocks(1) : Len(InputRefs(blockchain[1][k].data)) = 3
    /\ \E data \in NextBlockData(1) :
          NamesAnOutputTwice(data) /\ Len(data) = 2
    /\ \E data \in NextBlockData(1) :
          NamesAnOutputTwice(data) /\ Len(data) = 3

-----------------------------------------------------------------------------
(* Properties of the session of two honest nodes *)

\* of the two chains held when the session opened, the one of greater work
HeavierAtConnect ==
    IF Work(session.chains[1]) > Work(session.chains[2])
    THEN session.chains[1] ELSE session.chains[2]

LighterAtConnect ==
    IF Work(session.chains[1]) > Work(session.chains[2])
    THEN session.chains[2] ELSE session.chains[1]

BothHoldHeavier ==
    session.open /\ \A n \in Nodes : blockchain[n] = HeavierAtConnect

\* the heavier chain has the higher last index
HeavierIsLonger ==
    session.open /\ Len(HeavierAtConnect) > Len(LighterAtConnect)

\* C8: two honest nodes with valid chains of different work, a session
\* between them, no mining, every message delivered and handled: eventually
\* both hold the chain of greater work, also when it is the shorter one.
HeavierChainWins == session.open ~> BothHoldHeavier

\* What the handlers do give: both nodes come to hold the chain of greater
\* work when that chain also has the higher last index.
HeavierLongerChainWins == (session.open /\ HeavierIsLonger) ~> BothHoldHeavier

\* both nodes hold the heavier and longer chain, which the other node
\* asked for in full because its own chain was not the beginning of it
HeavierLongerChainWinsReached ==
    /\ session.open
    /\ HeavierIsLonger
    /\ BothHoldHeavier
    /\ \A n \in Nodes : channel[n] = <<>>
    /\ SubSeq(HeavierAtConnect, 1, Len(LighterAtConnect)) # LighterAtConnect

-----------------------------------------------------------------------------
(* Properties of the mining of the mempool *)

\* what POST /mineBlock does in the state node n is in
MineBlockNow(n) == generateNextBlock(StateOf(n), getPublicFromWallet(n), now)

\* C11: whenever the mempool of a node holds transactions, mineBlock appends
\* a block whose data is the coinbase to the node's own address followed by
\* the transactions of the mempool in order, and leaves the mempool empty; so
\* no transaction that was admitted makes mineBlock fail while it stays there.
MineBlockTakesThePool ==
    \A n \in Nodes :
        transactionPool[n] # <<>> =>
            /\ MineBlockNow(n).ret
            /\ MineBlockNow(n).st.blockchain
                  = Append(blockchain[n], MineBlockNow(n).block)
            /\ MineBlockNow(n).block.data
                  = <<getCoinbaseTransaction(getPublicFromWallet(n),
                                             getLatestBlock(StateOf(n)).index + 1)>>
                    \o transactionPool[n]
            /\ MineBlockNow(n).st.transactionPool = <<>>

-----------------------------------------------------------------------------
(* Properties of a block or a chain that is refused *)

\* the operations that end in addBlockToChain or in replaceChain; lastOp holds
\* one of them when it changed the state of the node or sent a message
ChainOps == {"addBlockToChain", "replaceChain", "mineBlock", "mineRawBlock",
             "mineTransaction"}

\* a handler that refused left the state as it was and sent nothing
Refused(st, outcome) == ~outcome.ret => (outcome.st = st /\ outcome.sent = <<>>)

\* C12: an addBlockToChain that refuses the block, for its structure, index,
\* previousHash, timestamp, hash or transactions, leaves the chain, the UTXO
\* list and the mempool as they were, and nothing is broadcast; the latest
\* block itself is refused, its index not being the next one; and a
\* replaceChain that keeps the chain leaves the three as they were.
RefusedChangesNothing ==
    /\ lastOp.op \in ChainOps => lastOp.ret
    /\ \A n \in Nodes : \A st \in {StateOf(n)} :
          /\ \A b \in PeerBlocks(st, now) :
                \A added \in {addBlockToChain(st, b, now)} :
                    ~added.ret => added.st = st
          /\ \A blockData \in RawData(n, st) :
                \A mined \in {mineRaw(st, blockData, now)} : Refused(st, mined)
          /\ getLatestBlock(st).index # getLatestBlock(st).index + 1
          /\ addBlockToChain(st, getLatestBlock(st), now) = [ret |-> FALSE, st |-> st]
          /\ \A C \in PeerChainsAt[now] :
                \A replaced \in {replaceChainAndBroadcast(st, C, now)} :
                    Refused(st, replaced)

\* the node has a chain of two blocks, an UTXO list and a mempool to keep, and
\* is offered a block that isValidNewBlock refuses, a block whose transactions
\* processTransactions refuses, and a chain that replaceChain refuses
RefusedChangesNothingWitness ==
    LET st == StateOf(1)
    IN  /\ Len(blockchain[1]) = 2
        /\ transactionPool[1] # <<>>
        /\ \E b \in PeerBlocks(st, now) :
              ~isValidNewBlock(b, getLatestBlock(st), now)
        /\ \E b \in PeerBlocks(st, now) :
              /\ isValidNewBlock(b, getLatestBlock(st), now)
              /\ ~processTransactions(b.data, st.unspentTxOuts, b.index).ok
        /\ \E C \in PeerChainsAt[now] :
              /\ handleBlockchainResponse(st, C, now).call = "replaceChain"
              /\ ~handleBlockchainResponse(st, C, now).ret

-----------------------------------------------------------------------------
(* Properties of the handler of the messages of a peer *)

KnownTypes == {QUERY_LATEST, QUERY_ALL, RESPONSE_BLOCKCHAIN, QUERY_TRANSACTION_POOL,
               RESPONSE_TRANSACTION_POOL}

\* the block is one that the validation of a new block on top of st refuses
BlockFails(st, block, currentTimestamp) ==
    \/ ~isValidNewBlock(block, getLatestBlock(st), currentTimestamp)
    \/ ~processTransactions(block.data, st.unspentTxOuts, block.index).ok

\* every transaction of the list is one that the mempool of st refuses
TransactionsFail(st, transactions) ==
    \A i \in 1..Len(transactions) :
        \/ ~validateTransaction(transactions[i], st.unspentTxOuts)
        \/ ~isValidTxForPool(transactions[i], st.transactionPool)

\* the text does not parse, or is of no known type, or its data does not
\* parse, or what it carries fails the validation it is put to: the last
\* block when it is to go on top of the head, else the chain, else the
\* transactions
TextFails(st, text, currentTimestamp) ==
    LET message == JSONToObject(text)
        received == JSONToObject(message[1].data)
        latest == received[1][Len(received[1])]
    IN  IF message = <<>> THEN TRUE
        ELSE IF message[1].type \notin KnownTypes THEN TRUE
        ELSE IF message[1].type = RESPONSE_BLOCKCHAIN
        THEN IF received = <<>> THEN TRUE
             ELSE IF received[1] = <<>> THEN FALSE
             ELSE IF latest.previousHash = getLatestBlock(st).hash \/ Len(received[1]) = 1
             THEN BlockFails(st, latest, currentTimestamp)
             ELSE ~isValidChain(received[1], currentTimestamp).ok
        ELSE IF message[1].type = RESPONSE_TRANSACTION_POOL
        THEN IF received = <<>> THEN TRUE
             ELSE received[1] # <<>> /\ TransactionsFail(st, received[1])
        ELSE FALSE

\* C13: the handler of a text of a peer that does not parse, or is of no known
\* type, or carries a block, a chain or transactions that fail their
\* validation, a validation that raises included, leaves the chain, the UTXO
\* list and the mempool of the node as they were; and no handler of a text
\* changes the sockets that are registered or closes the socket the text came
\* from, which is there for the next text.
FailingTextChangesNothing ==
    /\ [](\A text \in InboundTexts(StateOf(1), now) :
             TextFails(StateOf(1), text, now)
                => initMessageHandler(StateOf(1), text, now).st = StateOf(1))
    /\ [][(lastOp' # lastOp /\ lastOp'.op = "initMessageHandler")
             => (/\ sockets' = sockets
                 /\ ws'[lastOp'.from].readyState = "OPEN"
                 /\ lastOp'.dropped
                       => (/\ blockchain' = blockchain
                           /\ unspentTxOuts' = unspentTxOuts
                           /\ transactionPool' = transactionPool))]_vars

\* a text of a socket was dropped, and the next text of the same socket, a
\* block or transactions, was taken
FailingTextChangesNothingWitness ==
    /\ lastOp.op = "initMessageHandler"
    /\ lastOp.afterDropped
    /\ lastOp.ret
    /\ lastOp.from \in Registered(sockets)

-----------------------------------------------------------------------------
(* Properties of the mempool *)

\* the transactions that may be offered to the mempool of node n: those of the
\* lists of a peer and those of the blocks of a peer
OfferedTransactions(n) ==
    UNION {{T[i] : i \in 1..Len(T)} : T \in PeerPools(StateOf(n))}
    \cup PeerTxs(unspentTxOuts[n])

\* an input of the transaction names the (txOutId, txOutIndex) that an input
\* of a transaction of the pool names
ConflictsWithPool(tx, aTransactionPool) ==
    \E i \in 1..Len(tx.txIns) : \E j \in 1..Len(InputRefs(aTransactionPool)) :
        RefOf(tx.txIns[i]) = InputRefs(aTransactionPool)[j]

\* the output of 50 spent into an output of 60
UnbalancedSpend(uTxO) ==
    PeerTx(<<RefOf(uTxO)>>, <<TxOut(PeerAddress, uTxO.amount + 10)>>, TRUE, TRUE)

\* C14: addToTransactionPool(tx, U) puts tx at the end of the mempool if and
\* only if validateTransaction(tx, U) holds and no input of tx names the
\* (txOutId, txOutIndex) of an input of the mempool; else it throws and the
\* mempool is as it was.  A transaction that spends an output of 50 into an
\* output of 60 is refused.
AddToPoolIffValidAndFree ==
    \A n \in Nodes :
        /\ \A tx \in OfferedTransactions(n) :
              addToTransactionPool(tx, unspentTxOuts[n], transactionPool[n])
                 = IF validateTransaction(tx, unspentTxOuts[n])
                      /\ ~ConflictsWithPool(tx, transactionPool[n])
                   THEN [ok |-> TRUE, pool |-> transactionPool[n] \o <<tx>>]
                   ELSE [ok |-> FALSE, pool |-> transactionPool[n]]
        /\ \A u \in 1..Len(unspentTxOuts[n]) :
              unspentTxOuts[n][u].amount = COINBASE_AMOUNT
                 => addToTransactionPool(UnbalancedSpend(unspentTxOuts[n][u]),
                                         unspentTxOuts[n], transactionPool[n])
                       = [ok |-> FALSE, pool |-> transactionPool[n]]

\* the mempool holds a transaction, and the node is offered one that is valid
\* and names an output the mempool names, one that is valid and free, and one
\* that is not valid
AddToPoolIffValidAndFreeWitness ==
    /\ transactionPool[1] # <<>>
    /\ \E tx \in OfferedTransactions(1) :
          /\ validateTransaction(tx, unspentTxOuts[1])
          /\ ConflictsWithPool(tx, transactionPool[1])
    /\ \E tx \in OfferedTransactions(1) :
          /\ validateTransaction(tx, unspentTxOuts[1])
          /\ ~ConflictsWithPool(tx, transactionPool[1])
    /\ \E tx \in OfferedTransactions(1) :
          /\ ~validateTransaction(tx, unspentTxOuts[1])
          /\ ~ConflictsWithPool(tx, transactionPool[1])
    /\ lastOp.op = "handleReceivedTransactions"

-----------------------------------------------------------------------------
(* Properties of the sessions *)

\* the step is one in which the next event of socket s fires
Fires(s) == ws[s].events # <<>> /\ ws'[s].events = Tail(ws[s].events)

\* C15: when 'close' or 'error' fires on a socket, that socket is no longer
\* registered afterwards and every other socket that was registered still is;
\* so it is when 'error' and 'close' both fire on one socket, and when the
\* event is of a socket that is not registered.
ClosingRemovesOnlyTheSocket ==
    [][\A s \in Sessions :
          Fires(s)
             => /\ s \notin Registered(sockets')
                /\ \A t \in Sessions \ {s} :
                      t \in Registered(sockets) => t \in Registered(sockets')]_vars

-----------------------------------------------------------------------------
(* Properties of the handler of a RESPONSE_BLOCKCHAIN *)

\* the lists of blocks a peer may send to a node in state st
ReceivedBlocks(st, currentTimestamp) ==
    {<<b>> : b \in PeerBlocks(st, currentTimestamp)}
    \cup PeerChainsAt[currentTimestamp] \cup {<<>>}

\* the one thing the handler is to do with the blocks R: nothing, or
\* addBlockToChain of the last block, or the broadcast of a QUERY_ALL, or
\* replaceChain of R
Dispatch(st, R) ==
    IF R = <<>> THEN "none"
    ELSE IF ~isValidBlockStructure(R[Len(R)]) THEN "none"
    ELSE IF R[Len(R)].index <= getLatestBlock(st).index THEN "none"
    ELSE IF R[Len(R)].previousHash = getLatestBlock(st).hash THEN "addBlockToChain"
    ELSE IF Len(R) = 1 THEN "queryAll"
    ELSE "replaceChain"

\* C16: on a RESPONSE_BLOCKCHAIN with the blocks R the handler does one thing
\* and no other: nothing when R is empty, or its last block is malformed, or
\* has an index that is not above the head's; addBlockToChain of the last
\* block when that names the head as its previous block; the broadcast of a
\* QUERY_ALL, the state as it was, when it does not and R is one block;
\* replaceChain(R) in every other case.
ResponseIsDispatched ==
    \A n \in Nodes : \A st \in {StateOf(n)} :
        \A R \in ReceivedBlocks(st, now) :
            \A handled \in {handleBlockchainResponse(st, R, now)} :
                /\ handled.call = Dispatch(st, R)
                /\ handled.call = "none"
                      => handled.st = st /\ handled.sent = <<>>
                /\ handled.call = "queryAll"
                      => handled.st = st /\ handled.sent = <<queryAllMsg>>
                /\ handled.call = "addBlockToChain"
                      => /\ handled.st = addBlockToChain(st, R[Len(R)], now).st
                         /\ \A i \in 1..Len(handled.sent) :
                               handled.sent[i].type # QUERY_ALL
                /\ handled.call = "replaceChain"
                      => /\ handled.st.blockchain \in {st.blockchain, R}
                         /\ \A i \in 1..Len(handled.sent) :
                               handled.sent[i].type # QUERY_ALL

\* a node with a chain of two blocks is offered a block for each of the four
\* things, the malformed one among those it is to ignore, and a chain that
\* ends in a block that goes on top of its head
ResponseIsDispatchedWitness ==
    /\ Len(blockchain[1]) = 2
    /\ \A call \in {"none", "addBlockToChain", "queryAll", "replaceChain"} :
          \E R \in ReceivedBlocks(StateOf(1), now) : Dispatch(StateOf(1), R) = call
    /\ \E R \in ReceivedBlocks(StateOf(1), now) :
          R # <<>> /\ ~isValidBlockStructure(R[Len(R)])
    /\ \E R \in ReceivedBlocks(StateOf(1), now) :
          Len(R) > 1 /\ Dispatch(StateOf(1), R) = "addBlockToChain"
    /\ lastOp.op = "addBlockToChain"

-----------------------------------------------------------------------------
(* Properties of the broadcasts *)

\* the head of the node that has the sessions
Latest == getLatestBlock(StateOf(1))

\* the messages with the latest block among those the last handler broadcast
LatestBroadcast ==
    {i \in 1..Len(lastOp.sent) : lastOp.sent[i].type = RESPONSE_BLOCKCHAIN}

\* C17: a handler that changes the head of the node (a block that was mined,
\* a block of a peer, a chain of a peer) broadcasts one RESPONSE_BLOCKCHAIN,
\* with the new head and nothing else, and every registered session that can
\* be written to is written it; a handler that leaves the head as it was
\* broadcasts no RESPONSE_BLOCKCHAIN.
HeadChangeIsBroadcast ==
    [][IF Latest' # Latest
       THEN /\ lastOp'.sent = <<responseLatestMsg(StateOf(1))>>'
            /\ \A s \in Reachable :
                  \E i \in 1..Len(lastOp'.written[s]) :
                      lastOp'.written[s][i] = responseLatestMsg(StateOf(1))'
       ELSE lastOp' # lastOp => LatestBroadcast' = {}]_vars

\* C20: a handler that broadcasts messages writes each of them to every
\* registered session that can be written to, whatever the state of the
\* other registered sessions, and no ws.send that fails ends the handler.
BroadcastIsBestEffort ==
    [][(lastOp' # lastOp /\ lastOp'.sent # <<>>)
          => /\ ~lastOp'.thrown
             /\ \A s \in Reachable :
                   \A i \in 1..Len(lastOp'.sent) :
                       \E j \in 1..Len(lastOp'.written[s]) :
                           lastOp'.written[s][j] = lastOp'.sent[i]]_vars

-----------------------------------------------------------------------------
(* Properties of the handler of a RESPONSE_TRANSACTION_POOL *)

\* the lists of transactions of a RESPONSE_TRANSACTION_POOL: those of a peer,
\* and the spend of an output twice over and after the spend of another
ReceivedPools(st) ==
    PeerPools(st)
    \cup {<<PeerSpend(st.unspentTxOuts[i]), PeerSpend(st.unspentTxOuts[j])>> :
            i, j \in 1..Len(st.unspentTxOuts)}

\* the mempool after the first k transactions of T were offered to it, each
\* to the mempool the one before it left
RECURSIVE PoolAfter(_, _, _)
PoolAfter(st, T, k) ==
    IF k = 0 THEN st.transactionPool
    ELSE addToTransactionPool(T[k], st.unspentTxOuts, PoolAfter(st, T, k - 1)).pool

\* the transactions of T that were added, in their order
AddedOf(st, T) ==
    SelectSeq([k \in 1..Len(T) |-> k],
              LAMBDA k : addToTransactionPool(T[k], st.unspentTxOuts,
                                              PoolAfter(st, T, k - 1)).ok)

\* C18: the handler of a RESPONSE_TRANSACTION_POOL offers each transaction
\* of the message, in order, to addToTransactionPool with the unspent outputs
\* of the node; after each one that is added it broadcasts the mempool as it
\* then is; one that is refused changes nothing, is followed by the next one,
\* and nothing is written to the peer that sent the message.
EveryReceivedTransactionIsOffered ==
    \A n \in Nodes : \A st \in {StateOf(n)} : \A T \in ReceivedPools(st) :
        \A handled \in {initMessageHandler(st,
                            write(Message(RESPONSE_TRANSACTION_POOL, JSONStringify(T))),
                            now)} :
        \A added \in {AddedOf(st, T)} :
            /\ handled.st = NodeState(st.blockchain, st.unspentTxOuts,
                                      PoolAfter(st, T, Len(T)))
            /\ handled.reply = <<>>
            /\ Len(handled.sent) = Len(added)
            /\ \A i \in 1..Len(added) :
                  handled.sent[i] = Message(RESPONSE_TRANSACTION_POOL,
                                            JSONStringify(PoolAfter(st, T, added[i])))

\* the node took transactions of a peer, and is offered a list whose first
\* transaction is refused and whose second is added, and a list whose first
\* is added and whose second is refused
EveryReceivedTransactionIsOfferedWitness ==
    /\ lastOp.op = "handleReceivedTransactions"
    /\ transactionPool[1] # <<>>
    /\ \E T \in ReceivedPools(StateOf(1)) : AddedOf(StateOf(1), T) = <<2>>
    /\ \E T \in ReceivedPools(StateOf(1)) : Len(T) = 2 /\ AddedOf(StateOf(1), T) = <<1>>
    /\ \E T \in ReceivedPools(StateOf(1)) : AddedOf(StateOf(1), T) = <<1, 2>>

-----------------------------------------------------------------------------
(* Properties of a new session *)

\* the step is one in which socket s opens
Opens(s) == ws[s].readyState = "CONNECTING" /\ ws'[s].readyState = "OPEN"

\* the last handler wrote a QUERY_TRANSACTION_POOL to socket s
PoolQueried(s) ==
    \E i \in 1..Len(lastOp.written[s]) :
        lastOp.written[s][i].type = QUERY_TRANSACTION_POOL

\* C19: a socket that opens, inbound or outbound, is registered and written a
\* QUERY_LATEST in that step, before anything else is written to it, and the
\* timer that broadcasts the QUERY_TRANSACTION_POOL is set; a
\* QUERY_TRANSACTION_POOL is written only when a timer fires, and only to
\* sockets whose first message was the QUERY_LATEST.
QueryLatestComesFirst ==
    /\ [](\A s \in Sessions :
             /\ ws[s].first \in {NoType, QUERY_LATEST}
             /\ s \in Registered(sockets) => ws[s].first = QUERY_LATEST
             /\ ws[s].timer => ws[s].first = QUERY_LATEST)
    /\ [][\A s \in Sessions :
             /\ Opens(s)
                   => /\ ws[s].first = NoType
                      /\ s \notin Registered(sockets)
                      /\ s \in Registered(sockets')
                      /\ lastOp'.written[s] = <<queryChainLengthMsg>>
                      /\ ws'[s].timer
                      /\ \A t \in Sessions : ~PoolQueried(t)'
             /\ (lastOp' # lastOp /\ PoolQueried(s)')
                   => /\ lastOp'.op = "timer"
                      /\ ws[lastOp'.from].timer
                      /\ ~ws'[lastOp'.from].timer
                      /\ ws[s].first = QUERY_LATEST
                      /\ s \in Registered(sockets)]_vars

\* the timer of a socket fired when two sockets were open, and both were
\* written the QUERY_TRANSACTION_POOL
QueryLatestComesFirstWitness ==
    /\ lastOp.op = "timer"
    /\ \A s \in Sessions :
          /\ PoolQueried(s)
          /\ ws[s].first = QUERY_LATEST
          /\ s \in Registered(sockets)
    /\ \E s \in Sessions : ws[s].timer

-----------------------------------------------------------------------------
(* Properties of the hash of a block *)

\* the data of a block with the content of one transaction altered: its id,
\* the output an input names, the address or the amount of an output
AlteredData(data) ==
    {[data EXCEPT ![t].id = <<data[t].id>>] : t \in 1..Len(data)}
    \cup UNION {{[data EXCEPT ![t].txIns[i].txOutIndex = @ + 1] :
                    i \in 1..Len(data[t].txIns)} : t \in 1..Len(data)}
    \cup UNION {{[data EXCEPT ![t].txOuts[o].address = BadAddress] :
                    o \in 1..Len(data[t].txOuts)} : t \in 1..Len(data)}
    \cup UNION {{[data EXCEPT ![t].txOuts[o].amount = @ + 1] :
                    o \in 1..Len(data[t].txOuts)} : t \in 1..Len(data)}

\* C21: a block that was mined or taken from a peer and the same block with
\* the content of one of its transactions altered, index, previousHash,
\* timestamp, difficulty and nonce the same, have different pre-images of the
\* hash, and the hash of the block does not match the altered content.
TransactionsBindTheHash ==
    \A n \in Nodes : \A i \in 2..Len(blockchain[n]) :
        \A b \in {blockchain[n][i]} : \A data \in AlteredData(b.data) :
            /\ data # b.data
            /\ PreImage(b.index, b.previousHash, b.timestamp, data, b.difficulty, b.nonce)
                  # PreImage(b.index, b.previousHash, b.timestamp, b.data,
                             b.difficulty, b.nonce)
            /\ ~hashMatchesBlockContent([b EXCEPT !.data = data])

-----------------------------------------------------------------------------
(* Properties of the difficulty *)

\* the difficulty of the next block of node n
NextDifficulty(n) == getDifficulty(blockchain[n], Len(blockchain[n]))

\* C22: in every state of the chain and at every time the difficulty that
\* getDifficulty gives for the next block is 0 or more, and a mineBlock with
\* it ends with a block on the chain.
DifficultyNeverBelowZero ==
    /\ NextDifficulty(1) >= 0
    /\ generateNextBlock(StateOf(1), getPublicFromWallet(1), now).ret

\* the difficulty that the retarget of the specification gives the block
\* with index blockIndex of aBlockchain, from the block ten blocks before it
\* and the time up to the block before it, and never below 0
Retargeted(aBlockchain, blockIndex) ==
    LET P == aBlockchain[blockIndex - DIFFICULTY_ADJUSTMENT_INTERVAL + 1]
        latest == aBlockchain[blockIndex]
        timeExpected == BLOCK_GENERATION_INTERVAL * DIFFICULTY_ADJUSTMENT_INTERVAL
        timeTaken == latest.timestamp - P.timestamp
        adjusted == IF 2 * timeTaken < timeExpected THEN P.difficulty + 1
                    ELSE IF timeTaken > timeExpected * 2 THEN P.difficulty - 1
                    ELSE P.difficulty
    IN  IF adjusted < 0 THEN 0 ELSE adjusted

\* C23: every block of the chain whose index is above 0 and a multiple of
\* DIFFICULTY_ADJUSTMENT_INTERVAL, mined by the node or taken from a peer,
\* has the difficulty that the retarget gives from the block ten blocks
\* before it; a block of a peer that declares another difficulty is not put
\* on the chain.
AdjustmentBlocksAreRetargeted ==
    \A i \in 1..Len(blockchain[1]) :
        (blockchain[1][i].index > 0
         /\ blockchain[1][i].index % DIFFICULTY_ADJUSTMENT_INTERVAL = 0)
            => blockchain[1][i].difficulty = Retargeted(blockchain[1], blockchain[1][i].index)

\* C28: the difficulty of the next block that is mined is, when the index of
\* the latest block is a multiple of DIFFICULTY_ADJUSTMENT_INTERVAL and not 0,
\* with P the block ten positions before the latest in the chain and taken
\* the time from P to the latest, P.difficulty + 1 when taken < 50,
\* P.difficulty - 1 when taken > 200 and P.difficulty else; and in every other
\* case the difficulty of the latest block.
NextDifficultyIsTheRetarget ==
    \A latest \in {blockchain[1][Len(blockchain[1])]} :
        NextDifficulty(1)
           = IF latest.index % DIFFICULTY_ADJUSTMENT_INTERVAL = 0 /\ latest.index # 0
             THEN LET P == blockchain[1][Len(blockchain[1]) - DIFFICULTY_ADJUSTMENT_INTERVAL]
                      taken == latest.timestamp - P.timestamp
                  IN  IF taken < 50 THEN P.difficulty + 1
                      ELSE IF taken > 200 THEN P.difficulty - 1
                      ELSE P.difficulty
             ELSE latest.difficulty

-----------------------------------------------------------------------------
(* Properties of the mining and of the wallet *)

\* C24: mineBlock of a node whose mempool is empty puts one block on the
\* chain, with the index after the head's and the hash of the head as its
\* previousHash, whose data is one coinbase transaction that pays
\* COINBASE_AMOUNT to the address of the wallet; the unspent outputs are those
\* there were and then that one output, and the balance of the wallet is
\* COINBASE_AMOUNT more.  On a node that holds the genesis block alone the
\* block has index 1 and difficulty 0.
MineEmptyBlock ==
    transactionPool[1] = <<>>
       => \A st \in {StateOf(1)} : \A address \in {getPublicFromWallet(1)} :
          \A r \in {generateNextBlock(st, address, now)} :
             /\ r.ret
             /\ r.st.blockchain = Append(st.blockchain, r.block)
             /\ r.block.index = getLatestBlock(st).index + 1
             /\ r.block.previousHash = getLatestBlock(st).hash
             /\ Len(r.block.data) = 1
             /\ r.block.data[1].txOuts = <<TxOut(address, COINBASE_AMOUNT)>>
             /\ r.st.unspentTxOuts
                   = Append(st.unspentTxOuts,
                            UnspentTxOut(r.block.data[1].id, 0, address, COINBASE_AMOUNT))
             /\ getBalance(address, r.st.unspentTxOuts)
                   = getBalance(address, st.unspentTxOuts) + COINBASE_AMOUNT
             /\ st.blockchain = <<genesisBlock>>
                   => r.block.index = 1 /\ r.block.difficulty = 0

\* C25: whenever createTransaction succeeds on the unspent outputs and the
\* mempool of the node, sendTransaction puts the transaction it built at the
\* end of the mempool, as one new entry, and broadcasts the mempool; the chain
\* and the unspent outputs, and so the balance, are as they were.
BuiltTransactionIsAdmitted ==
    \A st \in {StateOf(1)} : \A address \in Receivers : \A amount \in Amounts :
    \A built \in {createTransaction(address, amount, getPrivateFromWallet(1),
                                    st.unspentTxOuts, st.transactionPool)} :
        built.ok
           => \A sent \in {sendTransaction(st, getPrivateFromWallet(1), address, amount)} :
                 /\ sent.ret
                 /\ sent.st.transactionPool = Append(st.transactionPool, built.tx)
                 /\ sent.sent = <<responseTransactionPoolMsg(sent.st)>>
                 /\ sent.st.blockchain = st.blockchain
                 /\ sent.st.unspentTxOuts = st.unspentTxOuts
                 /\ getBalance(getPublicFromWallet(1), sent.st.unspentTxOuts)
                       = getBalance(getPublicFromWallet(1), st.unspentTxOuts)

\* C26: while a findBlock searches for a nonce, the node can take the block
\* of a peer that waits for it, so that the head may change before the search
\* ends; and no two blocks of the chain were made for the same head.
MiningIsInterruptible ==
    /\ (mining # NoMining /\ channel[1] # <<>>) => ENABLED HandleMessage
    /\ \A i, j \in 1..Len(blockchain[1]) :
          blockchain[1][i].previousHash = blockchain[1][j].previousHash => i = j

-----------------------------------------------------------------------------
(* Properties of the unspent outputs and of the mempool *)

\* C27: in every state no two entries of the unspent outputs of a node have
\* the same txOutId and txOutIndex, whatever blocks and chains the node took,
\* those with a transaction without inputs or with an output of amount 0
\* among them.
UnspentTxOutsAreUnique ==
    \A n \in Nodes : \A i, j \in 1..Len(unspentTxOuts[n]) :
        RefOf(unspentTxOuts[n][i]) = RefOf(unspentTxOuts[n][j]) => i = j

-----------------------------------------------------------------------------
(* Properties of the reconciliation of the mempool *)

\* C29: whenever a node's UTXO list changes to U', its mempool becomes the
\* transactions whose inputs are all in U', in their former order (the
\* transactions with an input that is not in U' are removed, and no other),
\* and every transaction that stays and was valid against the former list
\* is valid against U'.
ReconcileKeepsTheValid ==
    [][\A n \in Nodes :
          unspentTxOuts'[n] # unspentTxOuts[n] =>
             /\ transactionPool'[n]
                   = Reconciled(transactionPool[n], unspentTxOuts'[n])
             /\ \A j \in 1..Len(transactionPool'[n]) :
                   validateTransaction(transactionPool'[n][j], unspentTxOuts[n])
                      => validateTransaction(transactionPool'[n][j],
                                             unspentTxOuts'[n])]_vars

-----------------------------------------------------------------------------
(* Properties of the transactions that the wallet builds *)

\* the amounts that a POST /sendTransaction or /mineTransaction may carry
BuildAmounts == {0 - 5, 0, 10, 50, 60}

\* the wallet's own UTXOs, in the order of the list, that no TxIn of the
\* mempool refers to
Spendable(n) ==
    SelectSeq(unspentTxOuts[n],
        LAMBDA uTxO :
            /\ uTxO.address = getPublicFromWallet(n)
            /\ \A j \in 1..Len(transactionPool[n]) :
               \A i \in 1..Len(transactionPool[n][j].txIns) :
                  RefOf(transactionPool[n][j].txIns[i]) # RefOf(uTxO))

\* the sum of the amounts of the first k entries of a list of outputs
AmountOfFirst(outs, k) == SumSeq([i \in 1..k |-> outs[i].amount])

\* C30: when createTransaction succeeds, the inputs of the transaction are
\* the shortest prefix of the wallet's own UTXOs that the mempool does not
\* refer to whose amounts reach the amount; the outputs are the amount to the
\* receiver and, if and only if the change is positive, the change to the
\* wallet's address; inputs and outputs have the same sum and no output
\* amount is negative.
BuiltTransactionIsGreedyAndBalanced ==
    \A n \in Nodes : \A receiverAddress \in Receivers : \A amount \in BuildAmounts :
    \A built \in {createTransaction(receiverAddress, amount, getPrivateFromWallet(n),
                                    unspentTxOuts[n], transactionPool[n])} :
        built.ok =>
            \A own \in {Spendable(n)} :
            \A k \in {Len(built.tx.txIns)} :
            \A change \in {AmountOfFirst(own, IF k <= Len(own) THEN k ELSE 0) - amount} :
                /\ k <= Len(own)
                /\ \A i \in 1..k : RefOf(built.tx.txIns[i]) = RefOf(own[i])
                /\ AmountOfFirst(own, k) >= amount
                /\ \A j \in 0..(k - 1) : AmountOfFirst(own, j) < amount
                /\ built.tx.txOuts
                      = IF change > 0
                        THEN <<TxOut(receiverAddress, amount),
                               TxOut(getPublicFromWallet(n), change)>>
                        ELSE <<TxOut(receiverAddress, amount)>>
                /\ AmountOfFirst(own, k) = AmountOfFirst(built.tx.txOuts, Len(built.tx.txOuts))
                /\ \A i \in 1..Len(built.tx.txOuts) : built.tx.txOuts[i].amount >= 0

\* C31: createTransaction fails exactly when the amounts of the wallet's own
\* UTXOs that the mempool does not refer to sum to less than the amount; when
\* it fails, sendTransaction leaves the node as it was and sends nothing; and
\* no two transactions of the mempool name the same UTXO of the wallet.
BuildFailsIffInsufficient ==
    \A n \in Nodes :
        /\ \A receiverAddress \in Receivers : \A amount \in BuildAmounts :
           \A built \in {createTransaction(receiverAddress, amount, getPrivateFromWallet(n),
                                           unspentTxOuts[n], transactionPool[n])} :
           \A own \in {Spendable(n)} :
              /\ ~built.ok <=> AmountOfFirst(own, Len(own)) < amount
              /\ ~built.ok =>
                    \A sent \in {sendTransaction(StateOf(n), getPrivateFromWallet(n),
                                                 receiverAddress, amount)} :
                       /\ ~sent.ret
                       /\ sent.st = StateOf(n)
                       /\ sent.sent = <<>>
        /\ \A a, b \in 1..Len(transactionPool[n]) :
           \A u \in 1..Len(unspentTxOuts[n]) :
              (/\ unspentTxOuts[n][u].address = getPublicFromWallet(n)
               /\ \E i \in 1..Len(transactionPool[n][a].txIns) :
                     RefOf(transactionPool[n][a].txIns[i]) = RefOf(unspentTxOuts[n][u])
               /\ \E i \in 1..Len(transactionPool[n][b].txIns) :
                     RefOf(transactionPool[n][b].txIns[i]) = RefOf(unspentTxOuts[n][u]))
                 => a = b

-----------------------------------------------------------------------------
(* Properties of the validation of blocks and transactions *)

\* C32: the transactions of a block are refused for duplicate inputs only
\* when two TxIns have the same txOutId and the same txOutIndex: a block whose
\* TxIns are pairwise distinct as pairs, whose coinbase is valid and whose
\* other transactions are each valid, is accepted by processTransactions.
DuplicatesAreComparedAsPairs ==
    \A n \in Nodes : \A data \in NextBlockData(n) :
    \A blockIndex \in {getLatestBlock(StateOf(n)).index + 1} :
        (/\ data # <<>>
         /\ isValidTransactionsStructure(data)
         /\ validateCoinbaseTx(data[1], blockIndex)
         /\ \A i \in 2..Len(data) : validateTransaction(data[i], unspentTxOuts[n])
         /\ ~NamesAnOutputTwice(data))
            => processTransactions(data, unspentTxOuts[n], blockIndex).ok

\* the blocks on offer to node n now: a plain block of the peer on top of the
\* head and the blocks that a validation has to refuse
OfferedBlocks(n) ==
    {PeerBlock(getLatestBlock(StateOf(n)), now,
               <<getCoinbaseTransaction(PeerAddress, Len(blockchain[n]))>>, 0)}
    \cup Tampered(StateOf(n), now)

-----------------------------------------------------------------------------
(* Properties of the timer of a session *)

\* C34: when the timer of initConnection fires for a session that has closed,
\* no message is written to any session, no error is raised and the state of
\* the node is as it was.
TimerOfClosedSessionDoesNothing ==
    [][\A s \in Sessions :
          (ws[s].timer /\ ~ws'[s].timer /\ ws[s].readyState = "CLOSED")
             => /\ \A t \in Sessions : lastOp'.written[t] = <<>>
                /\ ~lastOp'.thrown
                /\ blockchain' = blockchain
                /\ unspentTxOuts' = unspentTxOuts
                /\ transactionPool' = transactionPool
                /\ sockets' = sockets]_vars

-----------------------------------------------------------------------------
(* Properties of the admission to the mempool *)

\* C35: no transaction of the mempool has a TxOut whose address is not a
\* valid address, so every transaction of the mempool has the structure that
\* the validation of a block requires.
PoolAddressesAreValid ==
    \A n \in Nodes : \A j \in 1..Len(transactionPool[n]) :
        /\ \A i \in 1..Len(transactionPool[n][j].txOuts) :
              isValidAddress(transactionPool[n][j].txOuts[i].address)
        /\ isValidTransactionStructure(transactionPool[n][j])

-----------------------------------------------------------------------------
(* Properties of the supply *)

\* C36: in every reachable state the amounts of the unspent outputs of a node
\* add up to COINBASE_AMOUNT times the number of blocks of its chain, the
\* genesis block included.
SupplyIsConserved ==
    \A n \in Nodes :
        AmountOfFirst(unspentTxOuts[n], Len(unspentTxOuts[n]))
            = COINBASE_AMOUNT * Len(blockchain[n])

-----------------------------------------------------------------------------
(* Properties of the accumulated difficulty *)

\* C37: the accumulated difficulty of a node's chain is always a number, and
\* whenever the chain of a node changes, by a block that is appended or by a
\* replacement, its accumulated difficulty becomes strictly greater.
WorkGrowsWithTheHead ==
    /\ [](\A n \in Nodes : getAccumulatedDifficulty(blockchain[n]) # NaN)
    /\ [][\A n \in Nodes :
             blockchain'[n] # blockchain[n] =>
                /\ getAccumulatedDifficulty(blockchain[n]) # NaN
                /\ getAccumulatedDifficulty(blockchain'[n]) # NaN
                /\ getAccumulatedDifficulty(blockchain'[n])
                      > getAccumulatedDifficulty(blockchain[n])]_vars

-----------------------------------------------------------------------------
(* Properties of the gossip *)

\* C38: a RESPONSE_TRANSACTION_POOL whose transactions are all in the
\* mempool of the node, and a RESPONSE_BLOCKCHAIN whose last block has an
\* index that is not above the index of the node's head, change nothing in
\* the node and make it broadcast nothing.
KnownGossipIsDropped ==
    \A n \in Nodes :
        /\ \A receivedTransactions \in
                 {transactionPool[n]}
                 \cup {<<transactionPool[n][j]>> : j \in 1..Len(transactionPool[n])} :
           \A handled \in {handleReceivedTransactions(StateOf(n), receivedTransactions,
                                                      [ret |-> FALSE, sent |-> <<>>])} :
              /\ handled.st = StateOf(n)
              /\ handled.sent = <<>>
        /\ \A receivedBlocks \in
                 {SubSeq(blockchain[n], 1, k) : k \in 1..Len(blockchain[n])}
                 \cup {<<blockchain[n][k]>> : k \in 1..Len(blockchain[n])}
                 \cup {c \in PeerChainsAt[now] : Len(c) <= Len(blockchain[n])} :
           \A handled \in {handleBlockchainResponse(StateOf(n), receivedBlocks, now)} :
              /\ handled.st = StateOf(n)
              /\ handled.sent = <<>>

\* C39: no transaction of the mempool has two TxIns that name the same
\* (txOutId, txOutIndex), so the amounts of the outputs it names, each taken
\* once, add up to the amounts of its own outputs.
PoolTransactionsNameAnOutputOnce ==
    \A n \in Nodes : \A j \in 1..Len(transactionPool[n]) :
    \A refs \in {InputRefs(<<transactionPool[n][j]>>)} :
        /\ \A a, b \in 1..Len(refs) : refs[a] = refs[b] => a = b
        /\ \A named \in {SelectSeq(unspentTxOuts[n],
                                   LAMBDA uTxO : \E a \in 1..Len(refs) :
                                                    refs[a] = RefOf(uTxO))} :
              AmountOfFirst(named, Len(named))
                 = AmountOfFirst(transactionPool[n][j].txOuts,
                                 Len(transactionPool[n][j].txOuts))

====
